---- MODULE Spec2Model ----
(***************************************************************************)
(* arXiv ML trend pipeline: storage handlers, ingestion, LLM classifier    *)
(* and topic aggregation, modelled from the TypeScript handlers.           *)
(***************************************************************************)
EXTENDS Integers, Sequences, FiniteSets, TLC

VARIABLES
    articles_raw,       \* rows of table articles_raw (db/schema.ts)
    articles_enriched,  \* rows of table articles_enriched, in serial-id order
    ing,                \* per invocation slot: locals of a running ingestPapers()
    nextRun,            \* number of run ids handed out by crypto.randomUUID()
    lastDone,           \* history: the latest ingestPapers() that returned
    ret,                \* outcome of the latest storage / aggregation handler call
    llm,                \* the LLM service exchange classifyPaper() is run against
    cls,                \* outcome of classifyPaper(title, summary)
    weekly_reports,     \* rows of table weekly_reports, in serial-id order
    report,             \* the value the latest generateReport / createWeeklyReport returned
    delivery,           \* number of sendEmail() invocations so far
    feed,               \* the Atom feed the arXiv API answers with
    markdown            \* the document handed to markdownToHtml()

vars == <<articles_raw, articles_enriched, ing, nextRun, lastDone, ret, llm, cls,
          weekly_reports, report, delivery, feed, markdown>>

storeVars == <<articles_raw, articles_enriched, ing, nextRun, lastDone, ret>>
llmVars == <<llm, cls>>
reportVars == <<weekly_reports, report, delivery>>
inputVars == <<feed, markdown>>

\* ---------------------------------------------------------------------------
\* Small helpers
\* ---------------------------------------------------------------------------
Range(s) == {s[i] : i \in 1..Len(s)}

\* ---------------------------------------------------------------------------
\* schema.ts: the closed category set and the classification schema
\* ---------------------------------------------------------------------------
primaryCategoryEnum ==
    { "Foundation Models",
      "LLM Fine-tuning",
      "Parameter-Efficient Fine-tuning (PEFT)",
      "Retrieval-Augmented Generation (RAG)",
      "Model Quantization",
      "Agentic AI / AI Agents",
      "Multimodality",
      "Reinforcement Learning",
      "Computer Vision (Specific Techniques)",
      "Natural Language Processing (Specific Techniques)",
      "Ethical AI / AI Safety",
      "Efficient AI / AI Optimization",
      "Data-centric AI",
      "Other" }

MaxSecondary == 2
MinImpact == 1
MaxImpact == 5

\* A JSON value of an object key, as JSON.parse delivers it:
\*   t = "absent" (key missing), "str" (string s), "arr" (array a of strings),
\*   "num" (number n, plus one half when frac)
JAbsent == [t |-> "absent", s |-> "", a |-> <<>>, n |-> 0, frac |-> FALSE]
JStr(x) == [t |-> "str", s |-> x, a |-> <<>>, n |-> 0, frac |-> FALSE]
JArr(x) == [t |-> "arr", s |-> "", a |-> x, n |-> 0, frac |-> FALSE]
JNum(x, half) == [t |-> "num", s |-> "", a |-> <<>>, n |-> x, frac |-> half]

\* z.enum([...]) on one value
ZodCategoryOk(v) == v.t = "str" /\ v.s \in primaryCategoryEnum

\* (variant: the array has no maximum length)
ZodSecondaryNoMax(v) ==
    /\ v.t = "arr"
    /\ \A i \in 1..Len(v.a) : v.a[i] \in primaryCategoryEnum

\* z.array(primaryCategoryEnum).max(2)
ZodSecondaryOk(v) ==
    /\ v.t = "arr"
    /\ \A i \in 1..Len(v.a) : v.a[i] \in primaryCategoryEnum
    /\ Len(v.a) <= MaxSecondary

\* z.number().int().min(1).max(5)
ZodImpactOk(v) ==
    /\ v.t = "num"
    /\ ~v.frac
    /\ v.n >= MinImpact
    /\ v.n <= MaxImpact

\* llmClassificationSchema.safeParse-like view of llmClassificationSchema.parse:
\* the object passes when all three keys pass
llmClassificationSchemaOk(obj) ==
    /\ obj.kind = "object"
    /\ ZodCategoryOk(obj.primary_category)
    /\ ZodSecondaryOk(obj.secondary_categories)
    /\ ZodImpactOk(obj.potential_impact)

\* the value llmClassificationSchema.parse returns for a passing object
llmClassificationSchemaValue(obj) ==
    [primary_category |-> obj.primary_category.s,
     secondary_categories |-> obj.secondary_categories.a,
     potential_impact |-> obj.potential_impact.n]

\* the fallback literal of parseAndValidateResponse's catch block
FallbackClassification ==
    [primary_category |-> "Other", secondary_categories |-> <<>>, potential_impact |-> 1]

\* ---------------------------------------------------------------------------
\* classify_paper: the LLM exchange
\* ---------------------------------------------------------------------------
\* The message content of the first candidate is a text with a layout and a
\* payload:
\*   layout  "plain"         the payload alone
\*           "fenced"        ```\n<payload>\n```
\*           "fenced_json"   ```json\n<payload>\n```
\*           "prose_fenced"  prose, then ```json\n<payload>\n```, then prose
\*           "fenced_other"  ```javascript\n<payload>\n```
\*           "open_fence"    ```json\n<payload>   (fence never closed)
\*   payload kind "text" (words, no braces), "null" (the JSON literal null),
\*           "object" (a JSON object with the three keys below, each possibly
\*           absent or of the wrong type)
Layouts == {"plain", "fenced", "fenced_json", "prose_fenced", "fenced_other", "open_fence"}

JsonPrimaries ==
    {JAbsent, JStr("Foundation Models"), JStr("Other"), JStr("RAG")}

JsonSecondaries ==
    {JAbsent, JStr("LLM Fine-tuning"),
     JArr(<<>>), JArr(<<"LLM Fine-tuning">>),
     JArr(<<"LLM Fine-tuning", "Multimodality">>),
     JArr(<<"LLM Fine-tuning", "Multimodality", "Other">>),
     JArr(<<"RAG">>),
     JArr(<<"LLM Fine-tuning", "RAG", "Too Many Categories">>)}

JsonImpacts ==
    {JAbsent, JStr("4"), JNum(0, FALSE), JNum(1, FALSE), JNum(4, FALSE),
     JNum(5, FALSE), JNum(6, FALSE), JNum(4, TRUE)}

JsonObjects ==
    [kind : {"object"}, primary_category : JsonPrimaries,
     secondary_categories : JsonSecondaries, potential_impact : JsonImpacts]

NoObject(k) ==
    [kind |-> k, primary_category |-> JAbsent,
     secondary_categories |-> JAbsent, potential_impact |-> JAbsent]

Payloads == JsonObjects \cup {NoObject("text"), NoObject("null")}

Contents == [layout : Layouts, payload : Payloads]

\* The HTTP exchange: is the API key configured, the status of the response,
\* and the shape of the JSON envelope ("choices" holds one candidate,
\* "empty_choices" is choices: [], "no_choices" has no choices key)
Envelopes ==
    [apiKey : BOOLEAN, status : {200, 500}, body : {"choices", "empty_choices", "no_choices"}]

NoContent == [layout |-> "plain", payload |-> NoObject("text")]

\* exchanges that deliver a content, and exchanges that do not
LlmExchanges ==
    {[env |-> e, content |-> c] :
        e \in {[apiKey |-> TRUE, status |-> 200, body |-> "choices"]}, c \in Contents}
    \cup {[env |-> e, content |-> NoContent] :
        e \in Envelopes \ {[apiKey |-> TRUE, status |-> 200, body |-> "choices"]}}

\* callOpenRouter: the message content, or the error thrown
callOpenRouter(x) ==
    IF ~x.env.apiKey
    THEN [ok |-> FALSE, error |-> "OPENROUTER_API_KEY environment variable is required",
          content |-> NoContent]
    ELSE IF x.env.status # 200
    THEN [ok |-> FALSE, error |-> "OpenRouter API error", content |-> NoContent]
    ELSE IF x.env.body # "choices"
    THEN [ok |-> FALSE, error |-> "No response generated from OpenRouter API",
          content |-> NoContent]
    ELSE [ok |-> TRUE, error |-> "", content |-> x.content]

\* cleanedResponse.includes('```')
HasFence(c) == c.layout # "plain"

\* cleanedResponse.match(/```(?:json)?\s*(\{[\s\S]*?\})\s*```/): an opening
\* fence, optionally "json", then an object in braces, then a closing fence
FenceRegexMatches(c) ==
    /\ c.layout \in {"fenced", "fenced_json", "prose_fenced"}
    /\ c.payload.kind = "object"

\* jsonStr: the text handed to JSON.parse
ExtractJsonStr(c) ==
    IF HasFence(c) /\ FenceRegexMatches(c)
    THEN [layout |-> "plain", payload |-> c.payload]
    ELSE c

\* JSON.parse succeeds on a text that is one JSON value and nothing else
JsonParseOk(str) == str.layout = "plain" /\ str.payload.kind \in {"null", "object"}

\* (variant: the parsed object is returned without the schema check)
parseWithoutValidation(c) ==
    LET jsonStr == ExtractJsonStr(c) IN
    IF JsonParseOk(jsonStr) /\ jsonStr.payload.kind = "object"
    THEN llmClassificationSchemaValue(jsonStr.payload)
    ELSE FallbackClassification

parseAndValidateResponse(c) ==
    LET jsonStr == ExtractJsonStr(c) IN
    IF JsonParseOk(jsonStr) /\ llmClassificationSchemaOk(jsonStr.payload)
    THEN llmClassificationSchemaValue(jsonStr.payload)
    ELSE FallbackClassification

NoClassification ==
    [primary_category |-> "", secondary_categories |-> <<>>, potential_impact |-> 0]

ClsIdle == [state |-> "idle", value |-> NoClassification, error |-> ""]

\* (variant: every error of the call is answered with the fallback)
classifyPaperAlwaysFallback(x) ==
    LET response == callOpenRouter(x) IN
    [state |-> "returned",
     value |-> IF response.ok THEN parseAndValidateResponse(response.content)
               ELSE FallbackClassification,
     error |-> ""]

\* classifyPaper(title, summary): the prompt does not influence the outcome
\* of the exchange; errors of callOpenRouter are rethrown
classifyPaper(x) ==
    LET response == callOpenRouter(x) IN
    IF response.ok
    THEN [state |-> "returned", value |-> parseAndValidateResponse(response.content),
          error |-> ""]
    ELSE [state |-> "raised", value |-> NoClassification, error |-> response.error]

ClassifyPaper ==
    /\ cls.state = "idle"
    /\ cls' = classifyPaper(llm)
    /\ UNCHANGED <<llm, storeVars, reportVars, inputVars>>

\* ---------------------------------------------------------------------------
\* db/schema.ts: the two tables and their constraints
\* ---------------------------------------------------------------------------
\* articles_raw row:      [arxiv_id, title, published, run_id]
\*   (summary, authors and categories are carried exactly like title)
\* articles_enriched row: [id, arxiv_id, run_id, primary_category,
\*                         secondary_categories, potential_impact]
\* published is a day number; run_id is a small integer standing for a UUID.

\* select arxiv_id from articles_raw
RawIds(table) == {r.arxiv_id : r \in table}

\* (variant: the select after the conflict finds no row)
RawByIdMissing(table, id) == {}

\* select * from articles_raw where arxiv_id = id
RawById(table, id) == {r \in table : r.arxiv_id = id}

\* insert into articles_raw, one statement. arxiv_id is the primary key: a row
\* whose arxiv_id is stored (or was inserted earlier in the statement) is
\* skipped under ON CONFLICT DO NOTHING and aborts the whole statement
\* otherwise. Result: success flag, new table, RETURNING rows.
RECURSIVE InsertRawFrom(_, _, _, _)
InsertRawFrom(table, rows, doNothing, returning) ==
    IF rows = <<>> THEN [ok |-> TRUE, table |-> table, returning |-> returning]
    ELSE IF Head(rows).arxiv_id \in RawIds(table)
         THEN IF doNothing
              THEN InsertRawFrom(table, Tail(rows), doNothing, returning)
              ELSE [ok |-> FALSE, table |-> table, returning |-> <<>>]
         ELSE InsertRawFrom(table \cup {Head(rows)}, Tail(rows), doNothing,
                            Append(returning, Head(rows)))

\* (variant: arxiv_id is not a key, every row of the statement is stored)
InsertRawNoKey(table, rows, doNothing) ==
    [ok |-> TRUE, table |-> table \cup Range(rows), returning |-> rows]

InsertRaw(table, rows, doNothing) ==
    LET res == InsertRawFrom(table, rows, doNothing, <<>>) IN
    IF res.ok THEN res ELSE [ok |-> FALSE, table |-> table, returning |-> <<>>]

\* the row the serial id column and the insert values make
EnrichedRow(id, v) ==
    [id |-> id, arxiv_id |-> v.arxiv_id, run_id |-> v.run_id,
     primary_category |-> v.primary_category,
     secondary_categories |-> v.secondary_categories,
     potential_impact |-> v.potential_impact]

\* (variant: the statement writes over the rows of the table)
InsertEnrichedOverwrite(rawTable, table, values) ==
    LET added == [i \in 1..Len(values) |-> EnrichedRow(i, values[i])]
    IN [ok |-> TRUE,
        table |-> added \o SubSeq(table, Len(added) + 1, Len(table)),
        returning |-> added]

\* (variant: arxiv_id does not reference articles_raw)
InsertEnrichedNoReference(rawTable, table, values) ==
    LET added == [i \in 1..Len(values) |-> EnrichedRow(Len(table) + i, values[i])]
    IN [ok |-> TRUE, table |-> table \o added, returning |-> added]

\* insert into articles_enriched, one statement. arxiv_id references
\* articles_raw.arxiv_id: one value without a raw row aborts the statement
\* and none of its rows is stored.
InsertEnriched(rawTable, table, values) ==
    IF \A i \in 1..Len(values) : values[i].arxiv_id \in RawIds(rawTable)
    THEN LET added == [i \in 1..Len(values) |-> EnrichedRow(Len(table) + i, values[i])]
         IN [ok |-> TRUE, table |-> table \o added, returning |-> added]
    ELSE [ok |-> FALSE, table |-> table, returning |-> <<>>]

FkError == "violates foreign key constraint"
DbError == "statement failed"

\* how an awaited statement can end: the database executes it, or the call
\* rejects without effect (connection lost, statement timeout)
StatementOutcomes == {"executed", "rejected"}
PkError == "duplicate key value violates unique constraint"

\* ---------------------------------------------------------------------------
\* create_article_raw, create_article_enriched
\* ---------------------------------------------------------------------------
NoRet == [op |-> "none", arg |-> <<>>, ok |-> TRUE, rows |-> <<>>, error |-> ""]

\* createArticleRaw(input)
createArticleRaw(table, input) ==
    LET result == InsertRaw(table, <<input>>, TRUE)
        existingArticle == RawById(result.table, input.arxiv_id)
    IN IF Len(result.returning) > 0
       THEN [table |-> result.table, ok |-> TRUE, rows |-> <<result.returning[1]>>, error |-> ""]
       ELSE IF existingArticle = {}
            THEN [table |-> result.table, ok |-> FALSE, rows |-> <<>>,
                  error |-> "Failed to create or retrieve article"]
            ELSE [table |-> result.table, ok |-> TRUE,
                  rows |-> <<CHOOSE r \in existingArticle : TRUE>>, error |-> ""]

CreateArticleRaw(input) ==
    LET out == createArticleRaw(articles_raw, input) IN
    /\ articles_raw' = out.table
    /\ ret' = [op |-> "createArticleRaw", arg |-> <<input>>, ok |-> out.ok,
               rows |-> out.rows, error |-> out.error]
    /\ UNCHANGED <<articles_enriched, ing, nextRun, lastDone, llmVars, reportVars, inputVars>>

\* the rows selected one by one for conflictedIds, in that order
RECURSIVE SelectEach(_, _)
SelectEach(table, ids) ==
    IF ids = <<>> THEN <<>>
    ELSE (IF RawById(table, Head(ids)) = {} THEN <<>>
          ELSE <<CHOOSE r \in RawById(table, Head(ids)) : TRUE>>)
         \o SelectEach(table, Tail(ids))

\* what the driver does with the parameter of eq(arxiv_id, conflictedIds[0])
\* when conflictedIds is empty and the parameter is undefined: the database
\* module is outside the sources, so either the driver rejects the value
\* ("throws") or it sends NULL and the query selects nothing ("null")
UndefinedParam == {"throws", "null"}

UndefinedValueError == "undefined parameter value"

\* createArticlesRawBulk(inputs). The insert is its own statement: rows it
\* stored stay stored when a later select throws.
createArticlesRawBulk(table, inputs, driver) ==
    IF Len(inputs) = 0 THEN [table |-> table, ok |-> TRUE, rows |-> <<>>, error |-> ""]
    ELSE LET result == InsertRaw(table, inputs, TRUE)
             insertedArticles == result.returning
             insertedIds == {insertedArticles[i].arxiv_id : i \in 1..Len(insertedArticles)}
             allIds == [i \in 1..Len(inputs) |-> inputs[i].arxiv_id]
             conflictedIds == SelectSeq(allIds, LAMBDA id : id \notin insertedIds)
         IN IF Len(insertedArticles) < Len(inputs)
            THEN IF conflictedIds = <<>> /\ driver = "throws"
                 THEN [table |-> result.table, ok |-> FALSE, rows |-> <<>>,
                       error |-> UndefinedValueError]
                 ELSE [table |-> result.table, ok |-> TRUE,
                       rows |-> insertedArticles \o SelectEach(result.table, conflictedIds),
                       error |-> ""]
            ELSE [table |-> result.table, ok |-> TRUE, rows |-> insertedArticles, error |-> ""]

CreateArticlesRawBulk(inputs, driver) ==
    LET out == createArticlesRawBulk(articles_raw, inputs, driver) IN
    /\ articles_raw' = out.table
    /\ ret' = [op |-> "createArticlesRawBulk", arg |-> inputs, ok |-> out.ok,
               rows |-> out.rows, error |-> out.error]
    /\ UNCHANGED <<articles_enriched, ing, nextRun, lastDone, llmVars, reportVars, inputVars>>

\* createArticleEnriched(input)
createArticleEnriched(rawTable, table, input) ==
    LET result == InsertEnriched(rawTable, table, <<input>>) IN
    IF result.ok
    THEN [table |-> result.table, ok |-> TRUE, rows |-> <<result.returning[1]>>, error |-> ""]
    ELSE [table |-> table, ok |-> FALSE, rows |-> <<>>, error |-> FkError]

CreateArticleEnriched(input) ==
    LET out == createArticleEnriched(articles_raw, articles_enriched, input) IN
    /\ articles_enriched' = out.table
    /\ ret' = [op |-> "createArticleEnriched", arg |-> <<input>>, ok |-> out.ok,
               rows |-> out.rows, error |-> out.error]
    /\ UNCHANGED <<articles_raw, ing, nextRun, lastDone, llmVars, reportVars, inputVars>>

\* (variant: the batch is inserted one statement per input, up to the first
\* failure)
RECURSIVE createArticlesEnrichedEach(_, _, _)
createArticlesEnrichedEach(rawTable, table, inputs) ==
    IF Len(inputs) = 0 THEN [table |-> table, ok |-> TRUE, rows |-> <<>>, error |-> ""]
    ELSE LET result == InsertEnriched(rawTable, table, <<Head(inputs)>>) IN
         IF result.ok
         THEN LET rest == createArticlesEnrichedEach(rawTable, result.table, Tail(inputs))
              IN [rest EXCEPT !.rows = IF rest.ok THEN result.returning \o rest.rows ELSE <<>>]
         ELSE [table |-> table, ok |-> FALSE, rows |-> <<>>, error |-> FkError]

\* createArticlesEnrichedBulk(inputs)
createArticlesEnrichedBulk(rawTable, table, inputs) ==
    IF Len(inputs) = 0 THEN [table |-> table, ok |-> TRUE, rows |-> <<>>, error |-> ""]
    ELSE LET result == InsertEnriched(rawTable, table, inputs) IN
         IF result.ok
         THEN [table |-> result.table, ok |-> TRUE, rows |-> result.returning, error |-> ""]
         ELSE [table |-> table, ok |-> FALSE, rows |-> <<>>, error |-> FkError]

CreateArticlesEnrichedBulk(inputs) ==
    LET out == createArticlesEnrichedBulk(articles_raw, articles_enriched, inputs) IN
    /\ articles_enriched' = out.table
    /\ ret' = [op |-> "createArticlesEnrichedBulk", arg |-> inputs, ok |-> out.ok,
               rows |-> out.rows, error |-> out.error]
    /\ UNCHANGED <<articles_raw, ing, nextRun, lastDone, llmVars, reportVars, inputVars>>

\* ---------------------------------------------------------------------------
\* ingest_papers
\* ---------------------------------------------------------------------------
\* fetchArxivPapers(): the three mock entries (published as day of January 2024)
mockPapers ==
    << [id |-> "2024.01001",
        title |-> "Efficient Fine-tuning of Large Language Models with LoRA",
        summary |-> "This paper presents a novel approach to parameter-efficient fine-tuning using Low-Rank Adaptation (LoRA) techniques.",
        authors |-> <<"John Smith", "Jane Doe">>,
        published |-> 15],
       [id |-> "2024.01002",
        title |-> "Advances in Retrieval-Augmented Generation for Question Answering",
        summary |-> "We explore new methods for improving RAG systems through better retrieval mechanisms and context integration.",
        authors |-> <<"Alice Johnson", "Bob Wilson">>,
        published |-> 16],
       [id |-> "2024.01003",
        title |-> "Multimodal Foundation Models: Vision and Language Integration",
        summary |-> "This work investigates the integration of visual and textual modalities in foundation models.",
        authors |-> <<"Carol Brown">>,
        published |-> 17] >>

\* title.toLowerCase().includes(keyword) for the titles of mockPapers
TitleIncludes(title, keyword) ==
    <<title, keyword>> \in
        { <<"Efficient Fine-tuning of Large Language Models with LoRA", "lora">>,
          <<"Efficient Fine-tuning of Large Language Models with LoRA", "fine-tuning">>,
          <<"Advances in Retrieval-Augmented Generation for Question Answering", "retrieval">>,
          <<"Multimodal Foundation Models: Vision and Language Integration", "multimodal">>,
          <<"Multimodal Foundation Models: Vision and Language Integration", "vision">> }

\* the keyword classifier local to ingest_papers.ts
mockClassifyPaper(paper) ==
    IF TitleIncludes(paper.title, "lora") \/ TitleIncludes(paper.title, "fine-tuning")
    THEN [primary_category |-> "Parameter-Efficient Fine-tuning (PEFT)",
          secondary_categories |-> <<"LLM Fine-tuning">>,
          potential_impact |-> 4]
    ELSE IF TitleIncludes(paper.title, "rag") \/ TitleIncludes(paper.title, "retrieval")
    THEN [primary_category |-> "Retrieval-Augmented Generation (RAG)",
          secondary_categories |-> <<"Natural Language Processing (Specific Techniques)">>,
          potential_impact |-> 3]
    ELSE IF TitleIncludes(paper.title, "multimodal") \/ TitleIncludes(paper.title, "vision")
    THEN [primary_category |-> "Multimodality",
          secondary_categories |-> <<"Foundation Models">>,
          potential_impact |-> 5]
    ELSE [primary_category |-> "Other", secondary_categories |-> <<>>, potential_impact |-> 2]

\* (variant: the fetched papers are not filtered against the stored ids)
NewPapersUnfiltered(papers, existingIds) == papers

\* papers.filter(paper => !existingIds.has(paper.id))
NewPapers(papers, existingIds) ==
    SelectSeq(papers, LAMBDA paper : paper.id \notin existingIds)

\* (variant: the counters are left as they are)
CountTopicSkipped(topicCounts, primaryCat) == topicCounts

\* topicCounts[primaryCat] = (topicCounts[primaryCat] || 0) + 1
CountTopic(topicCounts, primaryCat) ==
    [c \in DOMAIN topicCounts \cup {primaryCat} |->
        IF c = primaryCat
        THEN (IF c \in DOMAIN topicCounts THEN topicCounts[c] ELSE 0) + 1
        ELSE topicCounts[c]]

EmptyCounts == [c \in {} |-> 0]

Slots == {1, 2}

NoPrev == [has |-> FALSE, total_new |-> 0, fromEmpty |-> FALSE]

IngIdle ==
    [pc |-> "idle", run_id |-> 0, existingIds |-> {}, newPapers |-> <<>>, i |-> 0,
     totalNew |-> 0, topicCounts |-> EmptyCounts, classification |-> NoClassification,
     prev |-> NoPrev, error |-> ""]

\* the number of ingestPapers() invocations the model follows
MaxRuns == 2

\* lines 108-124: run id, fetch, the select of stored ids, the filter. With
\* nothing new the loop body never runs and the result is returned at once.
IngestStart(p) ==
    /\ ing[p].pc \in {"idle", "done", "failed"}
    /\ nextRun < MaxRuns
    /\ nextRun' = nextRun + 1
    /\ LET existingIds == RawIds(articles_raw)
           newPapers == NewPapers(mockPapers, existingIds)
           done == Len(newPapers) = 0
       IN /\ ing' = [ing EXCEPT ![p] =
                 [pc |-> IF done THEN "done" ELSE "insert_raw",
                  run_id |-> nextRun + 1, existingIds |-> existingIds,
                  newPapers |-> newPapers, i |-> 1, totalNew |-> 0,
                  topicCounts |-> EmptyCounts, classification |-> NoClassification,
                  prev |-> lastDone, error |-> ""]]
          /\ lastDone' = IF done
                         THEN [has |-> TRUE, total_new |-> 0, fromEmpty |-> existingIds = {}]
                         ELSE lastDone
    /\ UNCHANGED <<articles_raw, articles_enriched, ret, llmVars, reportVars, inputVars>>

\* lines 128-140: the plain insert of the raw row; a primary key conflict
\* throws and ends the invocation in the catch block
IngestInsertRaw(p) ==
    /\ ing[p].pc = "insert_raw"
    /\ LET paper == ing[p].newPapers[ing[p].i]
           rawInput == [arxiv_id |-> paper.id, title |-> paper.title,
                        summary |-> paper.summary, authors |-> paper.authors,
                        published |-> paper.published, run_id |-> ing[p].run_id]
           result == InsertRaw(articles_raw, <<rawInput>>, FALSE)
       IN /\ articles_raw' = result.table
          /\ ing' = [ing EXCEPT ![p].pc = IF result.ok THEN "classify" ELSE "failed",
                                ![p].error = IF result.ok THEN "" ELSE PkError]
    /\ UNCHANGED <<articles_enriched, nextRun, lastDone, ret, llmVars, reportVars, inputVars>>

\* line 143: classification = await classifyPaper(paper)
IngestClassify(p) ==
    /\ ing[p].pc = "classify"
    /\ ing' = [ing EXCEPT ![p].pc = "insert_enriched",
                          ![p].classification = mockClassifyPaper(ing[p].newPapers[ing[p].i])]
    /\ UNCHANGED <<articles_raw, articles_enriched, nextRun, lastDone, ret, llmVars, reportVars, inputVars>>

\* lines 146-161: the insert of the classification row, the counters, and the
\* return after the last paper. The raw row of the paper is stored by then, in
\* a statement of its own: when this insert throws, the catch block rethrows
\* and the raw row stays.
IngestInsertEnriched(p) ==
    /\ ing[p].pc = "insert_enriched"
    /\ \E outcome \in StatementOutcomes :
       LET paper == ing[p].newPapers[ing[p].i]
           classification == ing[p].classification
           enrichedInput == [arxiv_id |-> paper.id, run_id |-> ing[p].run_id,
                             primary_category |-> classification.primary_category,
                             secondary_categories |-> classification.secondary_categories,
                             potential_impact |-> classification.potential_impact]
           result == IF outcome = "executed"
                     THEN InsertEnriched(articles_raw, articles_enriched, <<enrichedInput>>)
                     ELSE [ok |-> FALSE, table |-> articles_enriched, returning |-> <<>>]
           last == ing[p].i = Len(ing[p].newPapers)
       IN /\ articles_enriched' = result.table
          /\ IF result.ok
             THEN /\ ing' = [ing EXCEPT
                        ![p].pc = IF last THEN "done" ELSE "insert_raw",
                        ![p].i = IF last THEN ing[p].i ELSE ing[p].i + 1,
                        ![p].totalNew = ing[p].totalNew + 1,
                        ![p].topicCounts =
                            CountTopic(ing[p].topicCounts, classification.primary_category)]
                  /\ lastDone' = IF last
                                 THEN [has |-> TRUE, total_new |-> ing[p].totalNew + 1,
                                       fromEmpty |-> ing[p].existingIds = {}]
                                 ELSE lastDone
             ELSE /\ ing' = [ing EXCEPT ![p].pc = "failed",
                                        ![p].error = IF outcome = "executed" THEN FkError
                                                     ELSE DbError]
                  /\ lastDone' = lastDone
    /\ UNCHANGED <<articles_raw, nextRun, ret, llmVars, reportVars, inputVars>>

\* the IngestionRunResult a returned invocation hands to its caller
IngestResult(p) ==
    [run_id |-> ing[p].run_id, total_new |-> ing[p].totalNew,
     topic_counts |-> ing[p].topicCounts]

IngestStep(p) ==
    \/ IngestStart(p)
    \/ IngestInsertRaw(p)
    \/ IngestClassify(p)
    \/ IngestInsertEnriched(p)

\* ---------------------------------------------------------------------------
\* Query results: joins and ORDER BY
\* ---------------------------------------------------------------------------
\* articles_enriched INNER JOIN articles_raw ON arxiv_id, restricted to the
\* enriched rows that satisfy the WHERE clause: pairs [e, r]
Join(rawTable, enrichedRows) ==
    {[e |-> x, r |-> y] : x \in enrichedRows, y \in rawTable} \cap
    {j \in [e : enrichedRows, r : rawTable] : j.e.arxiv_id = j.r.arxiv_id}

\* The sequences a query may deliver for the row set S under an ORDER BY whose
\* strict "sorts before" relation is the set of pairs before: every
\* arrangement of S without an inversion. Rows the ORDER BY does not
\* distinguish come in any order.
RECURSIVE Orderings(_, _)
Orderings(S, before) ==
    IF S = {} THEN {<<>>}
    ELSE UNION { {<<x>> \o q : q \in Orderings(S \ {x}, before)} :
                 x \in {y \in S : \A z \in S : <<z, y>> \notin before} }

\* orderBy(desc(potential_impact), desc(published))
ByImpactThenPublished(S) ==
    {<<x, y>> \in S \X S :
        \/ x.e.potential_impact > y.e.potential_impact
        \/ /\ x.e.potential_impact = y.e.potential_impact
           /\ x.r.published > y.r.published}

\* orderBy(desc(potential_impact))
ByImpact(S) == {<<x, y>> \in S \X S : x.e.potential_impact > y.e.potential_impact}

\* orderBy(desc(count(*)))
ByCount(S) == {<<x, y>> \in S \X S : x.count > y.count}

\* the representative paper object built from a joined row
RepresentativePaper(j) ==
    [arxiv_id |-> j.r.arxiv_id, title |-> j.r.title, summary |-> j.r.summary,
     authors |-> j.r.authors, published |-> j.r.published,
     potential_impact |-> j.e.potential_impact]

\* articles.slice(0, 3) and .limit(3)
RepresentativeLimit == 3

Slice(s, n) == SubSeq(s, 1, IF Len(s) < n THEN Len(s) ELSE n)

\* ---------------------------------------------------------------------------
\* get_topic_aggregations
\* ---------------------------------------------------------------------------
\* keys of the topicGroups Map, in insertion (first seen) order
RECURSIVE FirstSeenCategories(_, _)
FirstSeenCategories(articles, seen) ==
    IF articles = <<>> THEN <<>>
    ELSE LET category == Head(articles).e.primary_category IN
         IF category \in seen THEN FirstSeenCategories(Tail(articles), seen)
         ELSE <<category>> \o FirstSeenCategories(Tail(articles), seen \cup {category})

\* topicCounts.sort((a, b) => b.count - a.count): a stable sort, entries of
\* equal count keep their relative order
RECURSIVE InsertByCount(_, _)
InsertByCount(sorted, entry) ==
    IF sorted = <<>> THEN <<entry>>
    ELSE IF Head(sorted).count >= entry.count
         THEN <<Head(sorted)>> \o InsertByCount(Tail(sorted), entry)
         ELSE <<entry>> \o sorted

\* (variant: the entries are returned in grouping order)
SortSkipped(entries) == entries

RECURSIVE SortByCountDesc(_)
SortByCountDesc(entries) ==
    IF entries = <<>> THEN <<>>
    ELSE InsertByCount(SortByCountDesc(SubSeq(entries, 1, Len(entries) - 1)),
                       entries[Len(entries)])

\* the grouping loop and the result, for the query result enrichedArticles
TopicGroups(enrichedArticles) ==
    LET categories == FirstSeenCategories(enrichedArticles, {}) IN
    [k \in 1..Len(categories) |->
        LET articles == SelectSeq(enrichedArticles,
                                  LAMBDA a : a.e.primary_category = categories[k])
            shown == Slice(articles, RepresentativeLimit)
        IN [primary_category |-> categories[k],
            count |-> Len(articles),
            representative_papers |-> [n \in 1..Len(shown) |-> RepresentativePaper(shown[n])]]]

\* rows of a run: where(eq(articlesEnrichedTable.run_id, runId))
EnrichedOfRun(table, runId) == {table[i] : i \in {n \in 1..Len(table) : table[n].run_id = runId}}

\* the results getTopicAggregations(runId) can return
getTopicAggregations(rawTable, table, runId) ==
    LET joined == Join(rawTable, EnrichedOfRun(table, runId)) IN
    {SortByCountDesc(TopicGroups(q)) : q \in Orderings(joined, ByImpactThenPublished(joined))}

GetTopicAggregations(runId) ==
    /\ \E topics \in getTopicAggregations(articles_raw, articles_enriched, runId) :
          ret' = [op |-> "getTopicAggregations", arg |-> <<runId>>, ok |-> TRUE,
                  rows |-> topics, error |-> ""]
    /\ UNCHANGED <<articles_raw, articles_enriched, ing, nextRun, lastDone, llmVars, reportVars, inputVars>>

\* ---------------------------------------------------------------------------
\* generate_report: the aggregation
\* ---------------------------------------------------------------------------
\* the grouped count query of getTopicCountsWithRepresentativePapers: one row
\* per primary_category of the run's rows
TopicCountRows(table, runId) ==
    LET rows == EnrichedOfRun(table, runId) IN
    {[primary_category |-> c,
      count |-> Cardinality({x \in rows : x.primary_category = c})] :
        c \in {x.primary_category : x \in rows}}

\* the second query of the loop: where(eq(primary_category, ...)) then
\* orderBy(desc(potential_impact)).limit(3)
EnrichedOfCategory(table, category) ==
    {table[i] : i \in {n \in 1..Len(table) : table[n].primary_category = category}}

\* the results getTopicCountsWithRepresentativePapers(runId) can return: an
\* order of the count rows, and for each an order of its paper rows
getTopicCountsWithRepresentativePapers(rawTable, table, runId) ==
    LET countRows == TopicCountRows(table, runId)
        all == Join(rawTable, Range(table))
    IN { [k \in 1..Len(tc) |->
            LET papers == SelectSeq(q, LAMBDA j :
                              j.e \in EnrichedOfCategory(table, tc[k].primary_category))
                shown == Slice(papers, RepresentativeLimit)
            IN [primary_category |-> tc[k].primary_category,
                count |-> tc[k].count,
                representative_papers |->
                    [n \in 1..Len(shown) |-> RepresentativePaper(shown[n])]]] :
         tc \in Orderings(countRows, ByCount(countRows)),
         q \in Orderings(all, ByImpact(all)) }

\* ---------------------------------------------------------------------------
\* Report text. A text is a sequence of lines, a line a sequence of tokens:
\* markdown syntax ("# ", "**", "1. ", "- ", "---"), HTML tags, and pieces of
\* text, which the conversions copy as they are.
\* ---------------------------------------------------------------------------
\* the sequences of ss, one after the other
RECURSIVE Concat(_)
Concat(ss) ==
    IF Len(ss) = 0 THEN <<>>
    ELSE IF Len(ss) = 1 THEN ss[1]
    ELSE LET half == Len(ss) \div 2
         IN Concat(SubSeq(ss, 1, half)) \o Concat(SubSeq(ss, half + 1, Len(ss)))

\* new Date().toLocaleDateString('en-US', {year, month, day})
currentDate == "January 22, 2024"

\* topicCounts.reduce((sum, topic) => sum + topic.count, 0)
RECURSIVE TotalPapers(_)
TotalPapers(topicCounts) ==
    IF topicCounts = <<>> THEN 0
    ELSE Head(topicCounts).count + TotalPapers(Tail(topicCounts))

\* (variant: the percentage is cut after the first decimal)
PercentageTruncated(count, totalPapers) ==
    LET tenths == (count * 1000) \div totalPapers
    IN ToString(tenths \div 10) \o "." \o ToString(tenths % 10)

\* ((count / totalPapers) * 100).toFixed(1)
Percentage(count, totalPapers) ==
    LET tenths == (count * 2000 + totalPapers) \div (2 * totalPapers)
    IN ToString(tenths \div 10) \o "." \o ToString(tenths % 10)

\* `${index + 1}. `
NumberPrefix(n) == ToString(n) \o ". "

\* names.join(', ')
RECURSIVE JoinComma(_)
JoinComma(names) ==
    IF names = <<>> THEN ""
    ELSE IF Len(names) = 1 THEN Head(names)
    ELSE Head(names) \o ", " \o JoinComma(Tail(names))

\* paper.authors.slice(0, 3).join(', ') + (paper.authors.length > 3 ? ' et al.' : '')
AuthorsText(authors) ==
    JoinComma(SubSeq(authors, 1, IF Len(authors) < 3 THEN Len(authors) ELSE 3))
        \o (IF Len(authors) > 3 THEN " et al." ELSE "")

\* the five lines of a key paper and the empty line after them; every modelled
\* summary is shorter than 200 characters, so slice(0, 200) keeps all of it
PaperLines(paper, paperIndex) ==
    << <<NumberPrefix(paperIndex), "**", paper.title, "**">>,
       <<"   - Authors: ", AuthorsText(paper.authors)>>,
       <<"   - ArXiv ID: ", paper.arxiv_id>>,
       <<"   - Impact Score: ", ToString(paper.potential_impact), "/5">>,
       <<"   - Summary: ", paper.summary, "...">>,
       <<>> >>

\* one entry of the Trending Research Areas section
TopicSection(topic, index) ==
    << <<"### ", NumberPrefix(index), topic.primary_category, " (",
         ToString(topic.count), " papers)">>,
       <<>> >>
    \o (IF Len(topic.representative_papers) > 0
        THEN << <<"**", "Key Papers:", "**">>, <<>> >>
             \o Concat([n \in 1..Len(topic.representative_papers) |->
                           PaperLines(topic.representative_papers[n], n)])
        ELSE <<>>)

\* the number of topics the Trending Research Areas section shows
TrendingLimit == 5

\* generateReportContent(topicCounts)
generateReportContent(topicCounts) ==
    LET totalPapers == TotalPapers(topicCounts)
        topCategory == IF Len(topicCounts) > 0 THEN topicCounts[1].primary_category
                       ELSE "AI Research"
        topCount == IF Len(topicCounts) > 0 THEN topicCounts[1].count ELSE 0
        trending == SubSeq(topicCounts, 1,
                           IF Len(topicCounts) < TrendingLimit THEN Len(topicCounts)
                           ELSE TrendingLimit)
        highImpactPapers ==
            Len(SelectSeq(Concat([k \in 1..Len(topicCounts) |->
                                     topicCounts[k].representative_papers]),
                          LAMBDA paper : paper.potential_impact >= 4))
    IN [subject |->
            <<"Weekly ML Research Trends - ", currentDate, " (", ToString(totalPapers),
              " papers, ", topCategory, " leads)">>,
        bodyMarkdown |->
            << <<"# ", "Weekly ML Research Trends Report">>,
               <<>>,
               <<"**", "Generated:", "**", " ", currentDate>>,
               <<"**", "Total Papers Analyzed:", "**", " ", ToString(totalPapers)>>,
               <<"**", "Leading Topic:", "**", " ", topCategory>>,
               <<>>,
               <<"## ", "Topic Distribution">>,
               <<>> >>
            \o [k \in 1..Len(topicCounts) |->
                   <<NumberPrefix(k), "**", topicCounts[k].primary_category, "**", ": ",
                     ToString(topicCounts[k].count), " papers (",
                     Percentage(topicCounts[k].count, totalPapers), "%)">>]
            \o << <<>>,
                  <<"## ", "Trending Research Areas">>,
                  <<>> >>
            \o Concat([k \in 1..Len(trending) |-> TopicSection(trending[k], k)])
            \o << <<"## ", "Insights">>,
                  <<>>,
                  <<"- ", "**", "Most Active Area:", "**", " ", topCategory, " with ",
                    ToString(topCount), " papers">> >>
            \o (IF Len(topicCounts) > 1
                THEN << <<"- ", "**", "Second Most Active:", "**", " ",
                          topicCounts[2].primary_category, " with ",
                          ToString(topicCounts[2].count), " papers">> >>
                ELSE <<>>)
            \o << <<"- ", "**", "High Impact Papers:", "**", " ",
                    ToString(highImpactPapers), " papers with impact score >= 4">>,
                  <<"- ", "**", "Research Diversity:", "**", " ",
                    ToString(Len(topicCounts)), " distinct research categories">>,
                  <<>>,
                  <<"---">>,
                  <<>>,
                  <<"*", "This report was automatically generated from ArXiv papers and LLM classifications.", "*">>,
                  <<>> >>]

\* html.replace(/^### (.*$)/gim, '<h3>$1</h3>') and the two like it
Headers(line) ==
    IF line = <<>> THEN line
    ELSE IF Head(line) = "### " THEN <<"<h3>">> \o Tail(line) \o <<"</h3>">>
    ELSE IF Head(line) = "## " THEN <<"<h2>">> \o Tail(line) \o <<"</h2>">>
    ELSE IF Head(line) = "# " THEN <<"<h1>">> \o Tail(line) \o <<"</h1>">>
    ELSE line

\* html.replace(/MARK(.*?)MARK/g, 'OPEN$1CLOSE') on one line: the marks are
\* paired left to right, a mark without a partner stays
RECURSIVE Enclose(_, _, _, _)
Enclose(line, mark, open, close) ==
    IF \E i \in 1..Len(line) : \E j \in 1..Len(line) :
           i < j /\ line[i] = mark /\ line[j] = mark
    THEN LET i == CHOOSE x \in 1..Len(line) :
                      line[x] = mark /\ \A k \in 1..(x - 1) : line[k] # mark
             j == CHOOSE y \in (i + 1)..Len(line) :
                      line[y] = mark /\ \A k \in (i + 1)..(y - 1) : line[k] # mark
         IN SubSeq(line, 1, i - 1) \o <<open>> \o SubSeq(line, i + 1, j - 1) \o <<close>>
            \o Enclose(SubSeq(line, j + 1, Len(line)), mark, open, close)
    ELSE line

\* /^\d+\. /.test(line) for the list numbers a report has
ListNumbers == 1..9
IsNumberedListItem(line) ==
    line # <<>> /\ Head(line) \in {NumberPrefix(n) : n \in ListNumbers}

\* /^- /.test(line)
IsBulletListItem(line) == line # <<>> /\ Head(line) = "- "

\* the list loop (lines 198-228) at line k: inList is true there exactly when
\* line k - 1 is a list item. The lines pushed for line k.
ListLines(lines, k) ==
    LET line == lines[k]
        isListItem == IsNumberedListItem(line) \/ IsBulletListItem(line)
        inList == k > 1 /\ (IsNumberedListItem(lines[k - 1]) \/ IsBulletListItem(lines[k - 1]))
        around == IF isListItem /\ ~inList
                  THEN << <<IF IsNumberedListItem(line) THEN "<ol>" ELSE "<ul>">> >>
                  ELSE IF ~isListItem /\ inList
                  THEN << <<"</ol>">>, <<"</ul>">> >>
                  ELSE <<>>
        item == IF isListItem THEN <<"<li>">> \o Tail(line) \o <<"</li>">> ELSE line
    IN around \o <<item>>

ProcessLists(lines) ==
    Concat([k \in 1..Len(lines) |-> ListLines(lines, k)])
    \o (IF lines # <<>> /\ (IsNumberedListItem(lines[Len(lines)])
                            \/ IsBulletListItem(lines[Len(lines)]))
        THEN << <<"</ol>">>, <<"</ul>">> >>
        ELSE <<>>)

\* the number of '\n' that processedLines.join('\n') puts right before line k:
\* one per empty line before it, and one more unless these start the text
NewlinesBefore(lines, k) ==
    LET empty == CHOOSE d \in 0..(k - 1) :
                     /\ d = k - 1 \/ lines[k - 1 - d] # <<>>
                     /\ \A i \in (k - d)..(k - 1) : lines[i] = <<>>
    IN IF empty = k - 1 THEN k - 1 ELSE empty + 1

\* html.replace(/\n\n/g, '</p><p>') and then html.replace(/\n/g, '<br>') on a
\* run of n newlines
RECURSIVE Breaks(_)
Breaks(n) ==
    IF n = 0 THEN <<>>
    ELSE IF n = 1 THEN <<"<br>">>
    ELSE <<"</p>", "<p>">> \o Breaks(n - 2)

\* the joined text with its newlines replaced
Paragraphs(lines) ==
    LET last == IF \E j \in 1..Len(lines) : lines[j] # <<>>
                THEN CHOOSE j \in 1..Len(lines) :
                         lines[j] # <<>> /\ \A i \in (j + 1)..Len(lines) : lines[i] = <<>>
                ELSE 0
    IN Concat([k \in 1..Len(lines) |->
                  IF lines[k] = <<>> THEN <<>>
                  ELSE Breaks(NewlinesBefore(lines, k)) \o lines[k]])
       \o Breaks(IF last = 0 THEN (IF Len(lines) = 0 THEN 0 ELSE Len(lines) - 1)
                 ELSE Len(lines) - last)

\* t without the tokens at the positions in gone
Without(t, gone) ==
    IF gone = {} THEN t
    ELSE LET kept == SelectSeq([i \in 1..Len(t) |-> <<i, t[i]>>], LAMBDA p : p[1] \notin gone)
         IN [k \in 1..Len(kept) |-> kept[k][2]]

\* t.replace(/PAT/g, '') for a pattern that is a fixed run of different tokens
\* of which those at the offsets in drop are not put back
Drop(t, pat, drop) ==
    LET starts == {i \in 1..(Len(t) - Len(pat) + 1) :
                      \A d \in 1..Len(pat) : t[i + d - 1] = pat[d]}
    IN Without(t, {i + d : i \in starts, d \in drop})

\* html.replace(/<p>(<li>.*?<\/li>)<\/p>/g, '$1'): the positions of the <p> and
\* </p> of the matches at or after from, where opens are the positions of
\* "<p><li>" and closes those of "</li></p>"
RECURSIVE ItemWrappers(_, _, _)
ItemWrappers(opens, closes, from) ==
    LET starts == {i \in opens : i >= from /\ \E j \in closes : j >= i + 2}
    IN IF starts = {} THEN {}
       ELSE LET i == CHOOSE x \in starts : \A y \in starts : x <= y
                ends == {j \in closes : j >= i + 2}
                j == CHOOSE x \in ends : \A y \in ends : x <= y
            IN {i, j + 1} \cup ItemWrappers(opens, closes, j + 2)

UnwrapItems(t) ==
    LET opens == {i \in 1..(Len(t) - 1) : t[i] = "<p>" /\ t[i + 1] = "<li>"}
        closes == {j \in 1..(Len(t) - 1) : t[j] = "</li>" /\ t[j + 1] = "</p>"}
    IN Without(t, ItemWrappers(opens, closes, 1))

\* convertMarkdownToHtml(markdown) of generate_report.ts
convertMarkdownToHtml(markdownLines) ==
    LET inline == [k \in 1..Len(markdownLines) |->
                      Enclose(Enclose(Headers(markdownLines[k]),
                                      "**", "<strong>", "</strong>"),
                              "*", "<em>", "</em>")]
        wrapped == <<"<p>">> \o Paragraphs(ProcessLists(inline)) \o <<"</p>">>
        c1 == Drop(wrapped, <<"<p>", "</p>">>, {0, 1})
        c2 == Drop(c1, <<"<p>", "<br>", "</p>">>, {0, 1, 2})
        c3 == Drop(Drop(c2, <<"<p>", "<ol>">>, {0}), <<"<p>", "<ul>">>, {0})
        c4 == Drop(Drop(c3, <<"</ol>", "</p>">>, {1}), <<"</ul>", "</p>">>, {1})
        c5 == UnwrapItems(c4)
    IN [k \in 1..Len(c5) |-> IF c5[k] = "---" THEN "<hr>" ELSE c5[k]]

\* ---------------------------------------------------------------------------
\* generateReport, createWeeklyReport, sendEmail
\* ---------------------------------------------------------------------------
NoDataError == "No enriched articles found for run_id"

\* (variant: the message does not say which run)
NoDataErrorAnonymous(runId) == NoDataError

\* `No enriched articles found for run_id: ${input.run_id}`
NoDataErrorFor(runId) == NoDataError \o ": " \o ToString(runId)

\* topicCounts.length === 0
NoData(topicCounts) == Len(topicCounts) = 0

\* the number of report rows the model follows
MaxReports == 2

\* created_at defaults to now(), the database clock at the insert. Every
\* insert is its own statement and the clock has moved on since the statement
\* before it; queries use the order of the timestamps only, so the clock
\* counts the inserts.
LastCreated(reports) ==
    IF reports = <<>> THEN 0 ELSE reports[Len(reports)].created_at

Now(reports) == LastCreated(reports) + 1

\* (variant: the emailed column keeps its default)
ReportRowDefaultEmailed(id, v, now) ==
    [id |-> id, run_id |-> v.run_id, subject |-> v.subject,
     body_markdown |-> v.body_markdown, body_html |-> v.body_html,
     emailed |-> FALSE, created_at |-> now]

\* the row the serial id column, the insert values and the clock make
ReportRow(id, v, now) ==
    [id |-> id, run_id |-> v.run_id, subject |-> v.subject,
     body_markdown |-> v.body_markdown, body_html |-> v.body_html,
     emailed |-> v.emailed, created_at |-> now]

NoReport ==
    [subject |-> <<>>, body_markdown |-> <<>>, body_html |-> <<>>, emailed |-> FALSE]

\* (variant: the report row is stored before the no-data check)
GenerateReportStoringFirst(input) ==
    /\ \E topicCounts \in
            getTopicCountsWithRepresentativePapers(articles_raw, articles_enriched, input.run_id) :
          LET content == generateReportContent(topicCounts)
              bodyHtml == convertMarkdownToHtml(content.bodyMarkdown)
              shouldEmail == ~input.preview_only
              reportData == [run_id |-> input.run_id, subject |-> content.subject,
                             body_markdown |-> content.bodyMarkdown,
                             body_html |-> bodyHtml, emailed |-> shouldEmail]
          IN /\ Len(weekly_reports) < MaxReports
             /\ weekly_reports' =
                    Append(weekly_reports,
                           ReportRow(Len(weekly_reports) + 1, reportData,
                                     Now(weekly_reports)))
             /\ report' = [subject |-> content.subject,
                           body_markdown |-> content.bodyMarkdown,
                           body_html |-> bodyHtml, emailed |-> shouldEmail]
             /\ delivery' = delivery
             /\ ret' = IF NoData(topicCounts)
                       THEN [op |-> "generateReport", arg |-> <<input>>, ok |-> FALSE,
                             rows |-> <<>>, error |-> NoDataErrorFor(input.run_id)]
                       ELSE [op |-> "generateReport", arg |-> <<input>>, ok |-> TRUE,
                             rows |-> topicCounts, error |-> ""]
    /\ UNCHANGED <<articles_raw, articles_enriched, ing, nextRun, lastDone, llmVars,
                   inputVars>>

\* generateReport(input): the aggregation, the no-data check, the rendering and
\* the insert of the report row; sendEmail is not called
GenerateReport(input) ==
    /\ \E topicCounts \in
            getTopicCountsWithRepresentativePapers(articles_raw, articles_enriched, input.run_id) :
          IF NoData(topicCounts)
          THEN /\ ret' = [op |-> "generateReport", arg |-> <<input>>, ok |-> FALSE,
                          rows |-> <<>>, error |-> NoDataErrorFor(input.run_id)]
               /\ UNCHANGED reportVars
          ELSE LET content == generateReportContent(topicCounts)
                   bodyHtml == convertMarkdownToHtml(content.bodyMarkdown)
                   shouldEmail == ~input.preview_only
                   reportData == [run_id |-> input.run_id, subject |-> content.subject,
                                  body_markdown |-> content.bodyMarkdown,
                                  body_html |-> bodyHtml, emailed |-> shouldEmail]
               IN /\ Len(weekly_reports) < MaxReports
                  /\ weekly_reports' =
                         Append(weekly_reports,
                                ReportRow(Len(weekly_reports) + 1, reportData,
                                          Now(weekly_reports)))
                  /\ report' = [subject |-> content.subject,
                                body_markdown |-> content.bodyMarkdown,
                                body_html |-> bodyHtml, emailed |-> shouldEmail]
                  /\ delivery' = delivery
                  /\ ret' = [op |-> "generateReport", arg |-> <<input>>, ok |-> TRUE,
                             rows |-> topicCounts, error |-> ""]
    /\ UNCHANGED <<articles_raw, articles_enriched, ing, nextRun, lastDone, llmVars,
                   inputVars>>

\* createWeeklyReport(input): one insert, the stored row is returned
CreateWeeklyReport(input) ==
    /\ Len(weekly_reports) < MaxReports
    /\ LET row == ReportRow(Len(weekly_reports) + 1, input, Now(weekly_reports)) IN
       /\ weekly_reports' = Append(weekly_reports, row)
       /\ report' = row
       /\ ret' = [op |-> "createWeeklyReport", arg |-> <<input>>, ok |-> TRUE,
                  rows |-> <<row>>, error |-> ""]
    /\ delivery' = delivery
    /\ UNCHANGED <<articles_raw, articles_enriched, ing, nextRun, lastDone, llmVars,
                   inputVars>>

\* (variant: order by created_at asc)
OldestFirst(reports) ==
    {k \in 1..Len(reports) :
        \A j \in 1..Len(reports) : reports[j].created_at >= reports[k].created_at}

\* order by created_at desc limit 1: where several rows hold the greatest
\* created_at the database returns any one of them
LatestFirst(reports) ==
    {k \in 1..Len(reports) :
        \A j \in 1..Len(reports) : reports[j].created_at <= reports[k].created_at}

\* getLatestReport(): null (no row) or the three selected columns
getLatestReport(reports, k) ==
    IF Len(reports) = 0 THEN <<>>
    ELSE <<[subject |-> reports[k].subject, body_html |-> reports[k].body_html,
            created_at |-> reports[k].created_at]>>

GetLatestReport ==
    /\ \E k \in (IF weekly_reports = <<>> THEN {0} ELSE LatestFirst(weekly_reports)) :
           ret' = [op |-> "getLatestReport", arg |-> <<>>, ok |-> TRUE,
                   rows |-> getLatestReport(weekly_reports, k), error |-> ""]
    /\ UNCHANGED <<articles_raw, articles_enriched, ing, nextRun, lastDone, llmVars,
                   inputVars, reportVars>>

\* the most recipients of a message
MaxRecipients == 2

\* what sendEmail meets: which of SMTP_HOST, SMTP_USER and SMTP_PASS are set,
\* the number of recipients, whether transporter.verify() throws (no
\* connection, refused login), whether transporter.sendMail() throws, and the
\* number of recipients the server rejected when it does not
SmtpCases ==
    {c \in [host : BOOLEAN, user : BOOLEAN, pass : BOOLEAN, to : 0..MaxRecipients,
            verify : {"ok", "throws"}, sendThrows : BOOLEAN,
            rejected : 0..MaxRecipients] :
        /\ c.rejected <= c.to
        /\ c.sendThrows => c.rejected = 0
        /\ c.to = 0 => c.sendThrows}

SmtpCase(configured, verify, sendThrows, rejected) ==
    [host |-> configured, user |-> TRUE, pass |-> TRUE, to |-> 1, verify |-> verify,
     sendThrows |-> sendThrows, rejected |-> rejected]

\* no configuration, verification fails, sending fails, the recipient is
\* rejected, the recipient is accepted
SmtpOutcomes ==
    {SmtpCase(FALSE, "ok", FALSE, 0), SmtpCase(TRUE, "throws", FALSE, 0),
     SmtpCase(TRUE, "ok", TRUE, 0), SmtpCase(TRUE, "ok", FALSE, 1),
     SmtpCase(TRUE, "ok", FALSE, 0)}

MailThrown == [thrown |-> TRUE, value |-> FALSE]
MailReturned(value) == [thrown |-> FALSE, value |-> value]

\* the try block of sendEmail
SendEmailTry(c) ==
    IF ~c.host \/ ~c.user \/ ~c.pass THEN MailReturned(FALSE)
    ELSE IF c.verify = "throws" THEN MailThrown
    ELSE IF c.sendThrows THEN MailThrown
    ELSE MailReturned(c.rejected = 0)

\* (variant: the error is thrown on to the caller)
SendEmailRethrow(outcome) == outcome

\* catch (error) { console.error(...); return false; }
SendEmailCatch(outcome) ==
    IF outcome.thrown THEN MailReturned(FALSE) ELSE outcome

\* sendEmail(to, subject, htmlBody, markdownBody)
sendEmail(c) == SendEmailCatch(SendEmailTry(c))

\* the number of sendEmail invocations the model follows
MaxMails == 1

SendEmail(c) ==
    /\ delivery < MaxMails
    /\ delivery' = delivery + 1
    /\ LET out == sendEmail(c) IN
       ret' = [op |-> "sendEmail", arg |-> <<c>>, ok |-> ~out.thrown,
               rows |-> IF out.thrown THEN <<>> ELSE <<[delivered |-> out.value]>>,
               error |-> IF out.thrown THEN "Failed to send email" ELSE ""]
    /\ UNCHANGED <<articles_raw, articles_enriched, ing, nextRun, lastDone, llmVars,
                   inputVars, weekly_reports, report>>

\* ---------------------------------------------------------------------------
\* markdownToHtml. HTML is a sequence of tokens: an open tag with its
\* attributes, a close tag, or text. An attribute has a name, the quote around
\* its value ("dq", "sq" or "none") and its value, a sequence of pieces of
\* which the first is the URL scheme where there is one. A markdown text is a
\* sequence of blocks separated by blank lines; a block is a heading, a
\* paragraph or an HTML block and holds inline items: tokens as above and
\* markdown links.
\* ---------------------------------------------------------------------------
Txt(str) == [t |-> "text", name |-> "", attrs |-> <<>>, s |-> str]
Attr(name, quote, value) == [name |-> name, quote |-> quote, value |-> value]
Open(name, attrs) == [t |-> "open", name |-> name, attrs |-> attrs, s |-> ""]
Close(name) == [t |-> "close", name |-> name, attrs |-> <<>>, s |-> ""]
\* [text](href)
MdLink(text, href) ==
    [t |-> "link", name |-> "", attrs |-> <<Attr("href", "none", href)>>, s |-> text]

\* the identifiers /\d{4}\.\d{4,5}(v\d+)?/ matches among the modelled texts
ArxivIdTexts == {"2401.12345", "2401.12345v2"}

\* the match of /(?:arXiv:)?(\d{4}\.\d{4,5}(?:v\d+)?)/ in a piece of text: its
\* group 1, or "" when there is none
ArxivIdIn(str) ==
    IF str \in ArxivIdTexts THEN str
    ELSE IF str = "arXiv:2401.12345" THEN "2401.12345"
    ELSE ""

\* marked's escaping of the text of a paragraph or heading: & < > " '
EscapeText(str) ==
    CASE str = "<>&" -> "&lt;&gt;&amp;"
      [] str = "<scr" -> "&lt;scr"
      [] str = "ipt>" -> "ipt&gt;"
      [] OTHER -> str

LinkStyle == Attr("style", "dq", <<"color: #0066cc; text-decoration: underline;">>)

\* renderer.link({href, title, tokens}) of a link without title
RendererLink(item) ==
    LET given == item.attrs[1].value
        href == IF Len(given) = 1 /\ given[1] \in ArxivIdTexts
                THEN <<"https://arxiv.org/abs/", given[1]>>
                ELSE given
    IN <<Open("a", <<Attr("href", "dq", href), LinkStyle>>),
         Txt(EscapeText(item.s)),
         Close("a")>>

\* renderer.parser.parseInline(tokens): text is escaped, inline HTML is kept,
\* links go through renderer.link
ParseInline(items) ==
    Concat([k \in 1..Len(items) |->
               IF items[k].t = "text" THEN <<Txt(EscapeText(items[k].s))>>
               ELSE IF items[k].t = "link" THEN RendererLink(items[k])
               ELSE <<items[k]>>])

\* the source text of a block, as marked copies it when the block lies inside
\* an HTML block
RawText(block) ==
    (IF block.kind = "heading" THEN <<Txt("# ")>> ELSE <<>>)
    \o Concat([k \in 1..Len(block.inline) |->
                  IF block.inline[k].t = "link"
                  THEN <<Txt("["), Txt(block.inline[k].s), Txt("]("),
                         Txt(Concat(block.inline[k].attrs[1].value)), Txt(")")>>
                  ELSE <<block.inline[k]>>])

\* renderer.heading (depth 1), renderer.paragraph, and an HTML block, which
\* marked copies as it is
RenderBlock(block) ==
    IF block.kind = "heading"
    THEN <<Open("h1", <<Attr("style", "dq",
                 <<"font-size: 24px; font-weight: bold; margin: 20px 0 16px 0; color: #333;">>)>>)>>
         \o ParseInline(block.inline) \o <<Close("h1")>>
    ELSE IF block.kind = "paragraph"
    THEN <<Open("p", <<Attr("style", "dq",
                 <<"margin: 12px 0; line-height: 1.6; color: #333;">>)>>)>>
         \o ParseInline(block.inline) \o <<Close("p")>>
    ELSE block.inline

\* an HTML block that starts with <script and has no </script> does not end
\* at the blank line: it runs to the end of the text
OpensScriptBlock(block) ==
    /\ block.kind = "html"
    /\ block.inline # <<>>
    /\ block.inline[1].t = "open" /\ block.inline[1].name = "script"
    /\ \A k \in 1..Len(block.inline) :
          ~(block.inline[k].t = "close" /\ block.inline[k].name = "script")

\* marked(markdown, {renderer})
marked(blocks) ==
    Concat([k \in 1..Len(blocks) |->
               IF \E j \in 1..(k - 1) : OpensScriptBlock(blocks[j])
               THEN RawText(blocks[k])
               ELSE RenderBlock(blocks[k])])

\* html.replace of the arXiv pattern with a link (lines 91-94): in text, and in
\* attribute values, where the inserted link is one more piece of the value
ArxivAnchorText(match, arxivId) ==
    "<a href=\"https://arxiv.org/abs/" \o arxivId
        \o "\" style=\"color: #0066cc; text-decoration: underline;\">" \o match \o "</a>"

LinkArxivInAttr(attr) ==
    [attr EXCEPT !.value =
        [k \in 1..Len(attr.value) |->
            IF ArxivIdIn(attr.value[k]) # ""
            THEN ArxivAnchorText(attr.value[k], ArxivIdIn(attr.value[k]))
            ELSE attr.value[k]]]

LinkArxivIds(html) ==
    Concat([k \in 1..Len(html) |->
               IF html[k].t = "text" /\ ArxivIdIn(html[k].s) # ""
               THEN <<Open("a", <<Attr("href", "dq",
                                       <<"https://arxiv.org/abs/", ArxivIdIn(html[k].s)>>),
                                  LinkStyle>>),
                      html[k],
                      Close("a")>>
               ELSE IF html[k].t = "open"
               THEN <<[html[k] EXCEPT !.attrs =
                          [n \in 1..Len(html[k].attrs) |-> LinkArxivInAttr(html[k].attrs[n])]]>>
               ELSE <<html[k]>>])

\* the token that a piece of text is when it spells a tag
Lex(str) == IF str = "<script>" THEN Open("script", <<>>) ELSE Txt(str)

\* the tokens of the string that the tokens spell: two pieces of text next to
\* each other that together spell a tag are that tag
RECURSIVE Glue(_)
Glue(html) ==
    IF Len(html) < 2 THEN html
    ELSE IF /\ html[1].t = "text" /\ html[2].t = "text"
            /\ Lex(html[1].s \o html[2].s).t # "text"
    THEN <<Lex(html[1].s \o html[2].s)>> \o Glue(SubSeq(html, 3, Len(html)))
    ELSE <<html[1]>> \o Glue(Tail(html))

\* html.replace(/<script[^>]*>[\s\S]*?<\/script>/gi, ''): one pass from left to
\* right; each match runs from a <script tag to the first </script> after it
\* and the search goes on behind the match
RECURSIVE RemoveScripts(_)
RemoveScripts(html) ==
    LET opens == {i \in 1..Len(html) :
                     /\ html[i].t = "open" /\ html[i].name = "script"
                     /\ \E j \in (i + 1)..Len(html) :
                           html[j].t = "close" /\ html[j].name = "script"}
    IN IF opens = {} THEN html
       ELSE LET i == CHOOSE x \in opens : \A y \in opens : x <= y
                ends == {j \in (i + 1)..Len(html) :
                            html[j].t = "close" /\ html[j].name = "script"}
                j == CHOOSE x \in ends : \A y \in ends : x <= y
            IN SubSeq(html, 1, i - 1) \o RemoveScripts(SubSeq(html, j + 1, Len(html)))

\* the attribute names /on\w+/ matches
EventAttrs == {"onerror", "onclick", "onload"}

\* html.replace(/\s*on\w+\s*=\s*"[^"]*"/gi, '') and the same with single quotes
RemoveHandlers(html, quote) ==
    [k \in 1..Len(html) |->
        [html[k] EXCEPT !.attrs =
            SelectSeq(html[k].attrs,
                      LAMBDA a : ~(a.name \in EventAttrs /\ a.quote = quote))]]

\* html.replace(/href\s*=\s*["']SCHEME[^"']*["']/gi, 'href="#"')
NeutralizeHrefs(html, schemes) ==
    [k \in 1..Len(html) |->
        [html[k] EXCEPT !.attrs =
            [n \in 1..Len(html[k].attrs) |->
                LET a == html[k].attrs[n] IN
                IF /\ a.name = "href" /\ a.quote \in {"dq", "sq"}
                   /\ a.value # <<>> /\ a.value[1] \in schemes
                THEN Attr("href", "dq", <<"#">>)
                ELSE a]]]

\* sanitizeHtml(html)
sanitizeHtml(html) ==
    NeutralizeHrefs(
        NeutralizeHrefs(
            RemoveHandlers(RemoveHandlers(RemoveScripts(Glue(html)), "dq"), "sq"),
            {"javascript:"}),
        {"data:", "vbscript:"})

\* markdownToHtml(markdown)
markdownToHtml(blocks) == sanitizeHtml(LinkArxivIds(marked(blocks)))

MarkdownToHtml ==
    /\ ret' = [op |-> "markdownToHtml", arg |-> <<markdown>>, ok |-> TRUE,
               rows |-> markdownToHtml(markdown), error |-> ""]
    /\ UNCHANGED <<articles_raw, articles_enriched, ing, nextRun, lastDone, llmVars,
                   reportVars, inputVars>>

\* ---------------------------------------------------------------------------
\* fetchArxivPapers. The feed is the response of the arXiv API: its status
\* and the entries parseArxivXml finds. The id text of an entry is modelled by
\* its form ("abs": a URL with arxiv.org/abs/, "bare": digits.digits with an
\* optional version, "other": anything else), its core and its suffix.
\* ---------------------------------------------------------------------------
EmptyUrl == [form |-> "empty", core |-> "", suffix |-> ""]

\* id.match(/^(.+?)v\d+$/): the suffixes "v1", "v2" are versions, "v" and ""
\* are not
StripVersion(core, suffix) ==
    IF suffix \in {"v1", "v2"} THEN core ELSE core \o suffix

\* extractArxivId(url): the id, or the error thrown
extractArxivId(url) ==
    IF url.form = "empty"
    THEN [ok |-> FALSE, id |-> "", error |-> "URL is empty or undefined"]
    ELSE IF url.form \in {"abs", "bare"}
    THEN [ok |-> TRUE, id |-> StripVersion(url.core, url.suffix), error |-> ""]
    ELSE [ok |-> FALSE, id |-> "", error |-> "Could not extract arXiv ID"]

\* cleanText(text): whitespace runs become one space, the ends are trimmed
cleanText(text) ==
    CASE text = "  Attention \n Is All  You Need " -> "Attention Is All You Need"
      [] text = "A survey\n of methods" -> "A survey of methods"
      [] OTHER -> text

\* x?.[0] || d
FirstOr(x, d) == IF Len(x) > 0 THEN x[1] ELSE d

\* the uuid of the call
FetchRun == 1

\* lines 96-114: the paper object of an entry
FetchedPaper(entry, arxivId) ==
    [arxiv_id |-> arxivId,
     title |-> cleanText(FirstOr(entry.title, "")),
     summary |-> cleanText(FirstOr(entry.summary, "")),
     authors |-> [k \in 1..Len(entry.author) |-> FirstOr(entry.author[k], "")],
     published |-> FirstOr(entry.published, 0),
     categories |-> entry.category,
     run_id |-> FetchRun]

\* (variant: every id counts as new)
SeenNever(seenArxivIds, arxivId) == FALSE

\* seenArxivIds.has(arxivId)
Seen(seenArxivIds, arxivId) == arxivId \in seenArxivIds

\* (variant: the error of an entry ends the call)
RaiseEntryError(state) == [state EXCEPT !.ok = FALSE, !.papers = <<>>]

\* catch (entryError) { continue }
SkipEntry(state) == state

\* one round of the loop of lines 85-122
FetchEntry(state, entry) ==
    LET extracted == extractArxivId(FirstOr(entry.id, EmptyUrl)) IN
    IF ~state.ok THEN state
    ELSE IF ~extracted.ok THEN SkipEntry(state)
    ELSE IF Seen(state.seenArxivIds, extracted.id) THEN state
    ELSE [ok |-> TRUE,
          papers |-> Append(state.papers, FetchedPaper(entry, extracted.id)),
          seenArxivIds |-> state.seenArxivIds \cup {extracted.id}]

RECURSIVE FetchEntries(_, _)
FetchEntries(state, entries) ==
    IF entries = <<>> THEN state
    ELSE FetchEntries(FetchEntry(state, Head(entries)), Tail(entries))

\* fetchArxivPapers(): the papers, or the error thrown
fetchArxivPapers(response) ==
    IF response.status # 200
    THEN [ok |-> FALSE, papers |-> <<>>, error |-> "ArXiv API request failed"]
    ELSE LET done == FetchEntries([ok |-> TRUE, papers |-> <<>>, seenArxivIds |-> {}],
                                  response.entry)
         IN [ok |-> done.ok, papers |-> done.papers,
             error |-> IF done.ok THEN "" ELSE "Error processing arXiv entry"]

FetchArxivPapers ==
    /\ LET result == fetchArxivPapers(feed) IN
       ret' = [op |-> "fetchArxivPapers", arg |-> <<>>, ok |-> result.ok,
               rows |-> result.papers, error |-> result.error]
    /\ UNCHANGED <<articles_raw, articles_enriched, ing, nextRun, lastDone, llmVars,
                   reportVars, inputVars>>

\* ---------------------------------------------------------------------------
\* Inputs of the handler calls
\* ---------------------------------------------------------------------------
\* run id of the rows that callers of the create handlers write
CallerRun == 9

\* createWeeklyReport inputs: the two reports of the getLatestReport tests
testReport1 ==
    [run_id |-> 1, subject |-> <<"AI Trends Weekly - Week 1">>,
     body_markdown |-> << <<"# ", "Week 1 Trends">>, <<"Foundation models are trending...">> >>,
     body_html |-> <<"<h1>", "Week 1 Trends", "</h1>", "<p>",
                     "Foundation models are trending...", "</p>">>,
     emailed |-> TRUE]

testReport2 ==
    [run_id |-> 2, subject |-> <<"AI Trends Weekly - Week 2">>,
     body_markdown |-> << <<"# ", "Week 2 Trends">>, <<"RAG techniques are emerging...">> >>,
     body_html |-> <<"<h1>", "Week 2 Trends", "</h1>", "<p>",
                     "RAG techniques are emerging...", "</p>">>,
     emailed |-> FALSE]

WeeklyReportInputs == {testReport1, testReport2}

\* createArticleRaw inputs: a paper of the feed under two titles, and a paper
\* outside the feed
RawInputs ==
    { [arxiv_id |-> "2024.01001", title |-> "Test Article",
       summary |-> "A test article summary", authors |-> <<"John Doe", "Jane Smith">>,
       published |-> 15,
       run_id |-> CallerRun],
      [arxiv_id |-> "2024.01001", title |-> "Different Title",
       summary |-> "Different summary", authors |-> <<"Different Author">>,
       published |-> 15,
       run_id |-> CallerRun],
      [arxiv_id |-> "2024.01234", title |-> "Test Article",
       summary |-> "A test article summary", authors |-> <<"John Doe", "Jane Smith">>,
       published |-> 15,
       run_id |-> CallerRun] }

\* createArticleEnriched inputs
EnrichedInputs ==
    [arxiv_id : {"2024.01001", "2024.01234"},
     run_id : {CallerRun},
     primary_category : {"Foundation Models"},
     secondary_categories : {<<"LLM Fine-tuning", "Multimodality">>},
     potential_impact : {4}]

\* the longest batch handed to a bulk handler
MaxBatch == 2

SeqsUpTo(S, n) == UNION {[1..k -> S] : k \in 0..n}

\* the number of classification rows callers of the create handlers may ask for
MaxEnriched == 2

CallerRows == Cardinality(EnrichedOfRun(articles_enriched, CallerRun))

\* ---------------------------------------------------------------------------
\* Specifications
\* ---------------------------------------------------------------------------
EmptyStore ==
    /\ articles_raw = {}
    /\ articles_enriched = <<>>
    /\ weekly_reports = <<>>
    /\ report = NoReport
    /\ delivery = 0
    /\ feed = <<>>
    /\ markdown = <<>>
    /\ ing = [p \in Slots |-> IngIdle]
    /\ nextRun = 0
    /\ lastDone = NoPrev
    /\ ret = NoRet

NoExchange == [env |-> [apiKey |-> FALSE, status |-> 500, body |-> "no_choices"],
               content |-> NoContent]

\* An empty database
Init ==
    /\ EmptyStore
    /\ llm = NoExchange
    /\ cls = ClsIdle

CallCreateArticleRaw == \E input \in RawInputs : CreateArticleRaw(input)

CallCreateArticlesRawBulk ==
    \E inputs \in SeqsUpTo(RawInputs, MaxBatch), driver \in UndefinedParam :
        CreateArticlesRawBulk(inputs, driver)

CallCreateArticleEnriched ==
    /\ CallerRows < MaxEnriched
    /\ \E input \in EnrichedInputs : CreateArticleEnriched(input)

CallCreateArticlesEnrichedBulk ==
    \E inputs \in SeqsUpTo(EnrichedInputs, MaxBatch) :
        /\ CallerRows + Len(inputs) <= MaxEnriched
        /\ CreateArticlesEnrichedBulk(inputs)

\* The raw-paper handlers next to one ingestion at a time
Next ==
    \/ CallCreateArticleRaw
    \/ CallCreateArticlesRawBulk
    \/ IngestStep(1)

Spec == Init /\ [][Next]_vars

\* The classification handlers next to createArticleRaw and one ingestion at
\* a time
NextEnriched ==
    \/ CallCreateArticleRaw
    \/ CallCreateArticleEnriched
    \/ CallCreateArticlesEnrichedBulk
    \/ IngestStep(1)

SpecEnriched == Init /\ [][NextEnriched]_vars

\* Ingestion alone, invocations possibly overlapping, from an empty database
NextIngest == \E p \in Slots : IngestStep(p)

SpecIngest == Init /\ [][NextIngest]_vars

\* The classifier against every modelled LLM exchange, next to an ingestion
InitClassify ==
    /\ EmptyStore
    /\ llm \in LlmExchanges
    /\ cls = ClsIdle

NextClassify ==
    \/ ClassifyPaper
    \/ IngestStep(1)

SpecClassify == InitClassify /\ [][NextClassify]_vars

\* Aggregation and report generation over stored classifications. The
\* database holds MaxAggPapers raw papers; run 1 classified each paper under
\* one of two topics, run 2 classified each of the first two papers under the
\* first topic or not at all.
MaxAggPapers == 4

AggIds == <<"2024.01001", "2024.01002", "2024.01003", "2024.01004", "2024.01005",
            "2024.01006">>
AggPublished == <<15, 16, 16, 17, 15, 16>>
\* impact scores of run 1: papers 1 and 2 tie with different dates, papers 2
\* and 3 tie with the same date
AggImpact == <<3, 3, 3, 4, 2, 2>>
\* impact scores of run 2
AggImpactSecond == <<5, 1>>
AggTopics == {"Foundation Models", "Other"}

AggRaw ==
    {[arxiv_id |-> AggIds[k], title |-> "Test Article",
      summary |-> "A test article summary", authors |-> <<"John Doe">>,
      published |-> AggPublished[k],
      run_id |-> CallerRun] : k \in 1..MaxAggPapers}

AggValue(k, runId, topic) ==
    [arxiv_id |-> AggIds[k], run_id |-> runId, primary_category |-> topic,
     secondary_categories |-> <<>>,
     potential_impact |-> IF runId = 1 THEN AggImpact[k] ELSE AggImpactSecond[k]]

\* the createArticleEnriched inputs of a choice: first[k] is the topic of
\* paper k in run 1, second[k] says whether paper k is classified in run 2
RECURSIVE AggValues(_, _, _)
AggValues(first, second, k) ==
    IF k = 0 THEN <<>>
    ELSE AggValues(first, second, k - 1)
         \o <<AggValue(k, 1, first[k])>>
         \o (IF k <= 2 /\ second[k] THEN <<AggValue(k, 2, "Foundation Models")>> ELSE <<>>)

\* the reports of earlier weeks that the table holds already
EarlierReports == [k \in 1..(MaxReports - 1) |-> ReportRow(k, testReport1, k)]

InitAgg ==
    /\ articles_raw = AggRaw
    /\ \E first \in [1..MaxAggPapers -> AggTopics] :
       \E second \in [1..2 -> BOOLEAN] :
          articles_enriched =
              InsertEnriched(AggRaw, <<>>, AggValues(first, second, MaxAggPapers)).table
    /\ weekly_reports = EarlierReports
    /\ report = NoReport
    /\ delivery = 0
    /\ feed = <<>>
    /\ markdown = <<>>
    /\ ing = [p \in Slots |-> IngIdle]
    /\ nextRun = 0
    /\ lastDone = NoPrev
    /\ ret = NoRet
    /\ llm = NoExchange
    /\ cls = ClsIdle

\* run ids asked for: run 1, which has rows, and run 2, which may have none
QueryRuns == {1, 2}

CallGetTopicAggregations == \E runId \in QueryRuns : GetTopicAggregations(runId)

CallGenerateReport ==
    \E input \in [run_id : QueryRuns, preview_only : BOOLEAN] : GenerateReport(input)

NextAgg ==
    \/ CallGetTopicAggregations
    \/ CallGenerateReport

SpecAgg == InitAgg /\ [][NextAgg]_vars

\* Reports. The database holds two papers that run 1 classified; run 2 has no
\* rows. The title, the summary and the author of the first paper are stored
\* as the feed gave them: ordinary words, or markup.
ReportTexts ==
    {[title |-> "Test Article", summary |-> "A test article summary",
      author |-> "John Doe"],
     [title |-> "<script>alert(1)</script>",
      summary |-> "<img src=x onerror=alert(1)>",
      author |-> "<a href=\"javascript:alert(1)\">x</a>"]}

ReportRaw(texts) ==
    {[arxiv_id |-> AggIds[1], title |-> texts.title, summary |-> texts.summary,
      authors |-> <<texts.author>>,
      published |-> AggPublished[1], run_id |-> CallerRun],
     [arxiv_id |-> AggIds[2], title |-> "Test Article",
      summary |-> "A test article summary", authors |-> <<"John Doe", "Jane Smith">>,
      published |-> AggPublished[2], run_id |-> CallerRun]}

InitReport ==
    /\ \E texts \in ReportTexts :
          /\ articles_raw = ReportRaw(texts)
          /\ articles_enriched =
                 InsertEnriched(ReportRaw(texts), <<>>,
                                <<AggValue(1, 1, "Foundation Models"),
                                  AggValue(2, 1, "Other")>>).table
    /\ weekly_reports = <<>>
    /\ report = NoReport
    /\ delivery = 0
    /\ feed = <<>>
    /\ markdown = <<>>
    /\ ing = [p \in Slots |-> IngIdle]
    /\ nextRun = 0
    /\ lastDone = NoPrev
    /\ ret = NoRet
    /\ llm = NoExchange
    /\ cls = ClsIdle

CallCreateWeeklyReport == \E input \in WeeklyReportInputs : CreateWeeklyReport(input)

CallSendEmail == \E c \in SmtpOutcomes : SendEmail(c)

NextReport ==
    \/ CallGenerateReport
    \/ CallCreateWeeklyReport
    \/ CallSendEmail
    \/ GetLatestReport

SpecReport == InitReport /\ [][NextReport]_vars

\* getTopicCounts(runId): the grouped count query on the run's classification
\* rows, turned into a record from topic to count
getTopicCounts(table, runId) ==
    LET results == TopicCountRows(table, runId) IN
    [c \in {r.primary_category : r \in results} |->
        (CHOOSE r \in results : r.primary_category = c).count]

GetTopicCounts(runId) ==
    /\ ret' = [op |-> "getTopicCounts", arg |-> <<runId>>, ok |-> TRUE,
               rows |-> <<[topicCounts |-> getTopicCounts(articles_enriched, runId)]>>,
               error |-> ""]
    /\ UNCHANGED <<articles_raw, articles_enriched, ing, nextRun, lastDone, llmVars,
                   reportVars, inputVars>>

CallGetTopicCounts == \E runId \in QueryRuns : GetTopicCounts(runId)

\* The reading handlers and generateReport on the database of the reports
NextRead ==
    \/ CallGenerateReport
    \/ CallGetTopicAggregations
    \/ CallGetTopicCounts
    \/ GetLatestReport

SpecRead == InitReport /\ [][NextRead]_vars

\* sendEmail alone, against every SMTP case
NextMail == \E c \in SmtpCases : SendEmail(c)

SpecMail == Init /\ [][NextMail]_vars

\* markdownToHtml inputs: texts of at most MaxBlocks blocks
MaxBlocks == 2

MdBlocks ==
    {[kind |-> "heading", inline |-> <<Txt("Title")>>],
     [kind |-> "paragraph", inline |-> <<Txt("Text with "), Txt("<>&"), Txt(" characters")>>],
     [kind |-> "paragraph", inline |-> <<Txt("See "), Txt("arXiv:2401.12345")>>],
     [kind |-> "paragraph", inline |-> <<MdLink("paper", <<"2401.12345">>)>>],
     [kind |-> "paragraph",
      inline |-> <<MdLink("2401.12345v2", <<"https://arxiv.org/abs/", "2401.12345v2">>)>>],
     [kind |-> "paragraph", inline |-> <<MdLink("Link", <<"javascript:", "alert('xss')">>)>>],
     [kind |-> "paragraph",
      inline |-> <<Txt("<scr"), Open("script", <<>>), Close("script"), Txt("ipt>"),
                   Txt("alert(1)"), Close("script")>>],
     [kind |-> "html",
      inline |-> <<Open("script", <<>>), Txt("alert('xss')"), Close("script")>>],
     [kind |-> "html",
      inline |-> <<Open("img", <<Attr("src", "dq", <<"x">>),
                                 Attr("onerror", "dq", <<"alert('xss')">>)>>)>>],
     [kind |-> "html",
      inline |-> <<Open("img", <<Attr("src", "none", <<"x">>),
                                 Attr("onerror", "none", <<"alert(1)">>)>>)>>],
     [kind |-> "html",
      inline |-> <<Open("a", <<Attr("href", "sq", <<"data:", "text/html,x">>)>>),
                   Txt("x"), Close("a")>>],
     [kind |-> "html",
      inline |-> <<Open("a", <<Attr("href", "none", <<"javascript:", "alert(1)">>)>>),
                   Txt("x"), Close("a")>>],
     [kind |-> "html",
      inline |-> <<Open("div", <<>>), Txt("<scr"), Open("script", <<>>), Close("script"),
                   Txt("ipt>"), Txt("alert(1)"), Close("script"), Close("div")>>],
     [kind |-> "html", inline |-> <<Open("script", <<>>), Txt("alert(1)")>>]}

InitMarkdown ==
    /\ markdown \in SeqsUpTo(MdBlocks, MaxBlocks)
    /\ feed = <<>>
    /\ articles_raw = {}
    /\ articles_enriched = <<>>
    /\ weekly_reports = <<>>
    /\ report = NoReport
    /\ delivery = 0
    /\ ing = [p \in Slots |-> IngIdle]
    /\ nextRun = 0
    /\ lastDone = NoPrev
    /\ ret = NoRet
    /\ llm = NoExchange
    /\ cls = ClsIdle

NextMarkdown == MarkdownToHtml

SpecMarkdown == InitMarkdown /\ [][NextMarkdown]_vars

\* fetchArxivPapers inputs: feeds of at most MaxFeed entries
MaxFeed == 3

FeedUrl(form, core, suffix) == [form |-> form, core |-> core, suffix |-> suffix]

FeedEntry(id, title, name) ==
    [id |-> id, title |-> <<title>>, summary |-> <<"A survey\n of methods">>,
     author |-> <<<<name>>, <<>>>>, published |-> <<15>>, category |-> <<"cs.LG">>]

FeedEntries ==
    {FeedEntry(<<FeedUrl("abs", "2401.0001", "v1")>>, "  Attention \n Is All  You Need ", "A"),
     FeedEntry(<<FeedUrl("abs", "2401.0001", "v2")>>, "Second version", "B"),
     FeedEntry(<<FeedUrl("bare", "2401.0001", "")>>, "Bare id", "C"),
     FeedEntry(<<FeedUrl("abs", "2401.0002", "v1")>>, "Another paper", "D"),
     FeedEntry(<<FeedUrl("bare", "2401.0002", "v")>>, "Unfinished version", "E"),
     FeedEntry(<<FeedUrl("other", "https://example.org/paper/1", "")>>, "No arXiv id", "F"),
     FeedEntry(<<>>, "No id", "G")}

InitFetch ==
    /\ feed \in {[status |-> 200, entry |-> es] : es \in SeqsUpTo(FeedEntries, MaxFeed)}
                \cup {[status |-> 500, entry |-> <<>>]}
    /\ markdown = <<>>
    /\ articles_raw = {}
    /\ articles_enriched = <<>>
    /\ weekly_reports = <<>>
    /\ report = NoReport
    /\ delivery = 0
    /\ ing = [p \in Slots |-> IngIdle]
    /\ nextRun = 0
    /\ lastDone = NoPrev
    /\ ret = NoRet
    /\ llm = NoExchange
    /\ cls = ClsIdle

NextFetch == FetchArxivPapers

SpecFetch == InitFetch /\ [][NextFetch]_vars

\* generateReport inputs: runs of at most MaxTopicPapers papers over three
\* topics, every split of the papers among the topics
MaxTopicPapers == 5

TopicNames == <<"Foundation Models", "Multimodality", "Retrieval-Augmented Generation (RAG)">>

\* the topic of paper k when the topics hold counts[1], counts[2], counts[3] papers
TopicOfPaper(counts, k) ==
    IF k <= counts[1] THEN TopicNames[1]
    ELSE IF k <= counts[1] + counts[2] THEN TopicNames[2]
    ELSE TopicNames[3]

TopicRaw(n) ==
    {[arxiv_id |-> AggIds[k], title |-> "Test Article",
      summary |-> "A test article summary", authors |-> <<"John Doe">>,
      published |-> AggPublished[k], run_id |-> 1] : k \in 1..n}

TopicValues(counts) ==
    [k \in 1..(counts[1] + counts[2] + counts[3]) |->
        [arxiv_id |-> AggIds[k], run_id |-> 1,
         primary_category |-> TopicOfPaper(counts, k),
         secondary_categories |-> <<>>,
         potential_impact |-> MinImpact + (k % MaxImpact)]]

InitTopics ==
    /\ \E counts \in [1..3 -> 0..MaxTopicPapers] :
          LET n == counts[1] + counts[2] + counts[3] IN
          /\ n \in 1..MaxTopicPapers
          /\ articles_raw = TopicRaw(n)
          /\ articles_enriched = InsertEnriched(TopicRaw(n), <<>>, TopicValues(counts)).table
    /\ weekly_reports = EarlierReports
    /\ report = NoReport
    /\ delivery = 0
    /\ feed = <<>>
    /\ markdown = <<>>
    /\ ing = [p \in Slots |-> IngIdle]
    /\ nextRun = 0
    /\ lastDone = NoPrev
    /\ ret = NoRet
    /\ llm = NoExchange
    /\ cls = ClsIdle

NextTopics == \E input \in [run_id : {1}, preview_only : BOOLEAN] : GenerateReport(input)

SpecTopics == InitTopics /\ [][NextTopics]_vars

\* ---------------------------------------------------------------------------
\* Properties: storage and ingestion (Spec, SpecEnriched)
\* ---------------------------------------------------------------------------
RawOfRun(runId) == {r \in articles_raw : r.run_id = runId}

\* C1: an ingestPapers() invoked after an earlier invocation returned, with the
\* same upstream papers, returns (it does not throw) total_new = 0 and an
\* empty topic_counts, and no step of it changes the raw-paper table or the
\* classification table; when the earlier invocation started from an empty
\* database and nothing else wrote to it, both tables hold exactly that
\* invocation's total_new rows.
C1_IdempotentIngestion ==
    /\ [](\A p \in Slots :
            (ing[p].pc \in {"done", "failed"} /\ ing[p].prev.has) =>
                /\ ing[p].pc = "done"
                /\ IngestResult(p).total_new = 0
                /\ IngestResult(p).topic_counts = EmptyCounts
                /\ (/\ ing[p].prev.fromEmpty
                    /\ RawOfRun(CallerRun) = {}
                    /\ EnrichedOfRun(articles_enriched, CallerRun) = {})
                   => /\ Cardinality(articles_raw) = ing[p].prev.total_new
                      /\ Len(articles_enriched) = ing[p].prev.total_new)
    /\ [][\A p \in Slots :
            (ing'[p] # ing[p] /\ ing'[p].prev.has) =>
                /\ articles_raw' = articles_raw
                /\ articles_enriched' = articles_enriched]_vars

\* a second invocation returned after a first one that stored the whole feed
C1_Witness ==
    /\ ing[1].pc = "done"
    /\ ing[1].prev.has
    /\ ing[1].prev.fromEmpty
    /\ ing[1].prev.total_new = Len(mockPapers)
    /\ Len(articles_enriched) = Len(mockPapers)

\* a step that is a call of handler op (every call changes ret or changes
\* nothing at all)
Called(op) == ret' # ret /\ ret'.op = op

\* C2: every classification row refers to a stored raw paper, and a
\* createArticleEnriched call for an identifier without a raw row fails and
\* leaves the classification table as it was.
C2_ForeignKey ==
    /\ [](\A i \in 1..Len(articles_enriched) :
              articles_enriched[i].arxiv_id \in RawIds(articles_raw))
    /\ [][(Called("createArticleEnriched")
              /\ ret'.arg[1].arxiv_id \notin RawIds(articles_raw))
            => (~ret'.ok /\ articles_enriched' = articles_enriched)]_vars

\* a createArticleEnriched call was refused while classification rows exist
C2_Witness ==
    /\ ret.op = "createArticleEnriched"
    /\ ~ret.ok
    /\ ret.arg[1].arxiv_id \notin RawIds(articles_raw)
    /\ Len(articles_enriched) > 0

\* C3: no two raw-paper rows have the same arxiv_id, whatever sequence of
\* createArticleRaw, createArticlesRawBulk and ingestPapers calls ran and
\* whether they succeeded or failed.
C3_UniqueArxivId ==
    \A r1 \in articles_raw : \A r2 \in articles_raw :
        r1.arxiv_id = r2.arxiv_id => r1 = r2

\* an ingestion hit a stored identifier and a bulk call met stored rows
C3_Witness ==
    /\ ing[1].pc = "failed"
    /\ ing[1].error = PkError
    /\ ret.op = "createArticlesRawBulk"
    /\ Len(ret.arg) = 2
    /\ ret.arg[1].arxiv_id = ret.arg[2].arxiv_id
    /\ ret.arg[1] # ret.arg[2]

\* C4: a createArticlesEnrichedBulk call with at least one identifier that has
\* no raw row fails with the foreign key error and leaves the classification
\* table as it was.
C4_BulkAllOrNothing ==
    [][(Called("createArticlesEnrichedBulk")
           /\ \E i \in 1..Len(ret'.arg) : ret'.arg[i].arxiv_id \notin RawIds(articles_raw))
         => (/\ ~ret'.ok
             /\ ret'.error = FkError
             /\ articles_enriched' = articles_enriched)]_vars

\* a batch of one stored and one unknown identifier was refused
C4_Witness ==
    /\ ret.op = "createArticlesEnrichedBulk"
    /\ ~ret.ok
    /\ Len(ret.arg) = 2
    /\ ret.arg[1].arxiv_id \in RawIds(articles_raw)
    /\ ret.arg[2].arxiv_id \notin RawIds(articles_raw)

\* ---------------------------------------------------------------------------
\* Properties: the classifier (SpecClassify)
\* ---------------------------------------------------------------------------
\* the classification contract, written out
ValidClassification(v) ==
    /\ v.primary_category \in primaryCategoryEnum
    /\ Len(v.secondary_categories) <= 2
    /\ \A i \in 1..Len(v.secondary_categories) :
          v.secondary_categories[i] \in primaryCategoryEnum
    /\ v.potential_impact \in 1..5

\* the payload is a JSON object that meets the classification contract
ObjectMeetsContract(o) ==
    /\ o.kind = "object"
    /\ o.primary_category.t = "str" /\ o.primary_category.s \in primaryCategoryEnum
    /\ o.secondary_categories.t = "arr"
    /\ Len(o.secondary_categories.a) <= 2
    /\ \A i \in 1..Len(o.secondary_categories.a) :
          o.secondary_categories.a[i] \in primaryCategoryEnum
    /\ o.potential_impact.t = "num" /\ ~o.potential_impact.frac
    /\ o.potential_impact.n \in 1..5

\* the whole response text is valid JSON
IsJsonText(c) == c.layout = "plain" /\ c.payload.kind \in {"null", "object"}

\* the exchange delivered a message content to classifyPaper
Delivered == llm.env.apiKey /\ llm.env.status = 200 /\ llm.env.body = "choices"

ReturnedFallback == cls.state = "returned" /\ cls.value = FallbackClassification

\* C5 as stated: a response text that is not valid JSON, or is valid JSON
\* violating the schema, yields exactly the fallback classification.
C5_Original ==
    (cls.state # "idle" /\ Delivered
        /\ (~IsJsonText(llm.content) \/ ~ObjectMeetsContract(llm.content.payload)))
    => ReturnedFallback

\* the text JSON.parse is meant to see: the object of the first ``` or ```json
\* fenced block when the text has one, the text itself otherwise
HasFencedObject(c) ==
    c.layout \in {"fenced", "fenced_json", "prose_fenced"} /\ c.payload.kind = "object"

\* C5 (amended): when the JSON candidate of the response -- the object of its
\* first ``` / ```json fenced block if it has one, else the whole text -- is
\* not valid JSON or violates the schema, classifyPaper returns exactly the
\* fallback classification and does not raise.
C5_FallbackOnInvalid ==
    (cls.state # "idle" /\ Delivered
        /\ \/ ~(IsJsonText(llm.content) \/ HasFencedObject(llm.content))
           \/ ~ObjectMeetsContract(llm.content.payload))
    => ReturnedFallback

\* a fenced object with three secondary categories fell back
C5_Witness ==
    /\ ReturnedFallback
    /\ llm.content.layout = "fenced_json"
    /\ llm.content.payload.kind = "object"
    /\ llm.content.payload.primary_category = JStr("Foundation Models")
    /\ Len(llm.content.payload.secondary_categories.a) = 3
    /\ llm.content.payload.potential_impact = JNum(4, FALSE)

\* C6: a non-success status, or a success status without candidate
\* completions, makes classifyPaper raise; it does not return the fallback.
C6_TransportErrorsRaise ==
    (cls.state # "idle" /\ (llm.env.status # 200 \/ llm.env.body # "choices"))
    => cls.state = "raised"

\* an empty choices array under status 200, with the API key set, raised
C6_Witness ==
    /\ cls.state = "raised"
    /\ llm.env.apiKey
    /\ llm.env.status = 200
    /\ llm.env.body = "empty_choices"
    /\ cls.error = "No response generated from OpenRouter API"

\* C7: whatever classifyPaper returns meets the classification contract, and
\* so does every classification row that ingestion writes.
C7_ValidClassifications ==
    /\ cls.state = "returned" => ValidClassification(cls.value)
    /\ \A i \in 1..Len(articles_enriched) : ValidClassification(articles_enriched[i])

\* a fenced response was accepted as it is, and ingestion wrote its rows
C7_Witness ==
    /\ cls.state = "returned"
    /\ cls.value # FallbackClassification
    /\ llm.content.layout = "fenced"
    /\ Len(cls.value.secondary_categories) = 2
    /\ Len(articles_enriched) = Len(mockPapers)

\* ---------------------------------------------------------------------------
\* Properties: aggregation (SpecAgg)
\* ---------------------------------------------------------------------------
\* the latest call returned an aggregation
Aggregated == ret.op \in {"getTopicAggregations", "generateReport"} /\ ret.ok

\* the run the latest aggregation was asked for
RetRun == IF ret.op = "generateReport" THEN ret.arg[1].run_id ELSE ret.arg[1]

\* the classification rows of run runId under topic
RowsOfTopic(runId, topic) ==
    {x \in EnrichedOfRun(articles_enriched, runId) : x.primary_category = topic}

\* C8: counts and representative papers reported for run R come only from
\* classification rows of run R, in getTopicAggregations and in the
\* aggregation generateReport renders.
C8_RunScoped ==
    Aggregated =>
        \A k \in 1..Len(ret.rows) :
            /\ ret.rows[k].count
                  = Cardinality(RowsOfTopic(RetRun, ret.rows[k].primary_category))
            /\ \A n \in 1..Len(ret.rows[k].representative_papers) :
                  \E x \in EnrichedOfRun(articles_enriched, RetRun) :
                      x.arxiv_id = ret.rows[k].representative_papers[n].arxiv_id

\* paper a sorts strictly before paper b: higher impact, or equal impact and
\* later publication
SortsBefore(a, b) ==
    \/ a.potential_impact > b.potential_impact
    \/ /\ a.potential_impact = b.potential_impact
       /\ a.published > b.published

\* the papers of a topic in a run, as representative paper objects
PapersOfTopic(runId, topic) ==
    {RepresentativePaper(j) : j \in Join(articles_raw, RowsOfTopic(runId, topic))}

\* C9: the representative papers of every topic are the first 3 (all, when
\* fewer) of the topic's papers of the run by impact descending, then
\* publication date descending.
C9_TopThreeByImpactThenDate ==
    Aggregated =>
        \A k \in 1..Len(ret.rows) :
            LET reps == ret.rows[k].representative_papers
                papers == PapersOfTopic(RetRun, ret.rows[k].primary_category)
                wanted == IF Cardinality(papers) < 3 THEN Cardinality(papers) ELSE 3
            IN /\ Len(reps) = wanted
               /\ \A n \in 1..Len(reps) : reps[n] \in papers
               /\ \A n \in 1..Len(reps) : \A m \in 1..Len(reps) :
                     n < m => (reps[n] # reps[m] /\ ~SortsBefore(reps[m], reps[n]))
               /\ \A x \in papers : \A n \in 1..Len(reps) :
                     x \notin Range(reps) => ~SortsBefore(x, reps[n])

\* C10: the aggregation has exactly one entry per topic with a classification
\* in the run, each count is the number of the run's rows of the topic, and
\* the entries are in non-increasing order of count.
C10_OneEntryPerTopic ==
    Aggregated =>
        LET topics == {x.primary_category : x \in EnrichedOfRun(articles_enriched, RetRun)}
        IN /\ {ret.rows[k].primary_category : k \in 1..Len(ret.rows)} = topics
           /\ Len(ret.rows) = Cardinality(topics)
           /\ \A k \in 1..Len(ret.rows) :
                 ret.rows[k].count
                    = Cardinality(RowsOfTopic(RetRun, ret.rows[k].primary_category))
           /\ \A k \in 1..(Len(ret.rows) - 1) : ret.rows[k].count >= ret.rows[k + 1].count

\* getTopicAggregations returned two topics, the larger first although its
\* papers have the lower impact, after a report with two topics was stored
C10_Witness ==
    /\ ret.op = "getTopicAggregations"
    /\ Len(ret.rows) = 2
    /\ ret.rows[1].count = 3
    /\ ret.rows[2].count = 1
    /\ ret.rows[2].representative_papers[1].potential_impact = 4
    /\ ret.rows[1].representative_papers[1].potential_impact = 3
    /\ Len(weekly_reports) = MaxReports

\* ---------------------------------------------------------------------------
\* Properties: reports (SpecAgg, SpecReport)
\* ---------------------------------------------------------------------------
\* C11: for a run without classification rows, getTopicAggregations returns
\* the empty list and no error, and generateReport fails with the no-data error
\* that names the run and leaves the report table as it was.
C11_EmptyRun ==
    [][/\ (Called("getTopicAggregations")
           /\ EnrichedOfRun(articles_enriched, ret'.arg[1]) = {})
          => ret'.ok /\ ret'.rows = <<>>
       /\ (Called("generateReport")
           /\ EnrichedOfRun(articles_enriched, ret'.arg[1].run_id) = {})
          => /\ ~ret'.ok
             /\ ret'.error = "No enriched articles found for run_id: "
                                 \o ToString(ret'.arg[1].run_id)
             /\ weekly_reports' = weekly_reports]_vars

\* generateReport has failed for run 2, which has no rows, while the table
\* holds reports
C11_Witness ==
    /\ ret.op = "generateReport"
    /\ ~ret.ok
    /\ ret.arg[1].run_id = 2
    /\ EnrichedOfRun(articles_enriched, 2) = {}
    /\ weekly_reports # <<>>

\* C12: a successful generateReport persists exactly one report row; with
\* preview_only it makes no delivery attempt and records emailed = false;
\* without preview_only it attempts the e-mail delivery; emailed = true is
\* recorded only when a delivery was attempted.
C12_DeliveryFollowsPreview ==
    [][(Called("generateReport") /\ ret'.ok)
          => /\ Len(weekly_reports') = Len(weekly_reports) + 1
             /\ ret'.arg[1].preview_only
                   => (delivery' = delivery /\ ~report'.emailed)
             /\ (~ret'.arg[1].preview_only) => (delivery' = delivery + 1)
             /\ report'.emailed => (delivery' = delivery + 1)]_vars

\* a step of the handler op: every handler leaves its result in ret
Stepped(op) == vars' # vars /\ ret'.op = op

\* C13: each successful generateReport or createWeeklyReport adds exactly one
\* report row, whose run_id, subject, markdown body, HTML body and emailed flag
\* are the returned ones; a repeated call adds a further row; no operation
\* changes or deletes a report row.
C13_ReportsAppendOnly ==
    [][/\ ((Stepped("generateReport") /\ ret'.ok) \/ Stepped("createWeeklyReport"))
          => /\ Len(weekly_reports') = Len(weekly_reports) + 1
             /\ LET row == weekly_reports'[Len(weekly_reports')] IN
                   /\ row.run_id = ret'.arg[1].run_id
                   /\ row.subject = report'.subject
                   /\ row.body_markdown = report'.body_markdown
                   /\ row.body_html = report'.body_html
                   /\ row.emailed = report'.emailed
       /\ Len(weekly_reports') >= Len(weekly_reports)
       /\ \A k \in 1..Len(weekly_reports) : weekly_reports'[k] = weekly_reports[k]]_vars

\* generateReport has been repeated with the same input: two rows that differ
\* in their id and their creation time only
C13_Witness ==
    /\ Len(weekly_reports) = 2
    /\ ret.op = "generateReport" /\ ret.ok
    /\ weekly_reports[1].id = 1
    /\ weekly_reports[2] = [weekly_reports[1] EXCEPT !.id = 2,
                                     !.created_at = weekly_reports[2].created_at]
    /\ weekly_reports[2].created_at > weekly_reports[1].created_at
    /\ weekly_reports[2].body_html = report.body_html
    /\ report.body_html # <<>>

\* the stored texts that are a <script> element, carry an inline event
\* handler, or carry a javascript: URL
UnsafeTexts ==
    {"<script>alert(1)</script>",
     "<img src=x onerror=alert(1)>",
     "<a href=\"javascript:alert(1)\">x</a>"}

\* C14: the body_html that generateReport persists and returns is sanitized: it
\* has no <script> element, no inline event handler and no javascript:, data:
\* or vbscript: URL, whatever the stored titles, authors and summaries are.
C14_ReportHtmlSanitized ==
    (ret.op = "generateReport" /\ ret.ok)
        => /\ \A k \in 1..Len(report.body_html) : report.body_html[k] \notin UnsafeTexts
           /\ LET row == weekly_reports[Len(weekly_reports)] IN
                 \A k \in 1..Len(row.body_html) : row.body_html[k] \notin UnsafeTexts

\* what a browser reads in the returned HTML
HasScriptElement(html) ==
    \E k \in 1..Len(Glue(html)) : Glue(html)[k].t = "open" /\ Glue(html)[k].name = "script"

HasEventHandler(html) ==
    \E k \in 1..Len(html) : \E n \in 1..Len(html[k].attrs) :
        html[k].attrs[n].name \in EventAttrs

HasScriptUrl(html) ==
    \E k \in 1..Len(html) : \E n \in 1..Len(html[k].attrs) :
        LET a == html[k].attrs[n] IN
        a.name = "href" /\ a.value # <<>> /\ a.value[1] \in {"javascript:", "data:", "vbscript:"}

\* C15: for any markdown input the HTML that markdownToHtml returns has no
\* <script> element, no inline on* event handler attribute and no href whose URL
\* starts with javascript:, data: or vbscript:, also when such text is nested
\* or split so that removing one occurrence leaves another.
C15_MarkdownHtmlSanitized ==
    ret.op = "markdownToHtml"
        => /\ ~HasScriptElement(ret.rows)
           /\ ~HasEventHandler(ret.rows)
           /\ ~HasScriptUrl(ret.rows)

\* ---------------------------------------------------------------------------
\* Properties: fetchArxivPapers (SpecFetch)
\* ---------------------------------------------------------------------------
\* the entries with an id text that holds an arXiv identifier
WellFormed(entry) == entry.id # <<>> /\ entry.id[1].form \in {"abs", "bare"}

\* the identifier of a well-formed entry without its version suffix
Canonical(entry) ==
    IF entry.id[1].suffix \in {"v1", "v2"} THEN entry.id[1].core
    ELSE entry.id[1].core \o entry.id[1].suffix

\* the position of the first well-formed entry of the feed with the identifier
FirstWith(id) ==
    CHOOSE k \in 1..Len(feed.entry) :
        /\ WellFormed(feed.entry[k]) /\ Canonical(feed.entry[k]) = id
        /\ \A j \in 1..(k - 1) :
              ~(WellFormed(feed.entry[j]) /\ Canonical(feed.entry[j]) = id)

Fetched == ret.op = "fetchArxivPapers" /\ ret.ok

\* C16: fetchArxivPapers returns at most one record per canonical identifier,
\* and that record carries the fields of the first feed entry with the
\* identifier; entries that differ from an earlier one only by the version
\* suffix are dropped.
C16_OneRecordPerIdentifier ==
    Fetched
        => /\ \A n, m \in 1..Len(ret.rows) :
                 ret.rows[n].arxiv_id = ret.rows[m].arxiv_id => n = m
           /\ \A n \in 1..Len(ret.rows) :
                 /\ \E k \in 1..Len(feed.entry) :
                       WellFormed(feed.entry[k])
                       /\ Canonical(feed.entry[k]) = ret.rows[n].arxiv_id
                 /\ LET first == feed.entry[FirstWith(ret.rows[n].arxiv_id)] IN
                       /\ ret.rows[n].title = cleanText(first.title[1])
                       /\ ret.rows[n].authors[1] = first.author[1][1]

\* the feed held v1, then v2 of a paper, then the paper without version: one
\* record, that of v1
C16_Witness ==
    /\ Fetched
    /\ Len(feed.entry) = 3
    /\ \A k \in 1..3 : WellFormed(feed.entry[k])
    /\ feed.entry[1].id[1].suffix = "v1"
    /\ feed.entry[2].id[1].suffix = "v2"
    /\ feed.entry[3].id[1].form = "bare"
    /\ \A k \in 1..3 : Canonical(feed.entry[k]) = "2401.0001"
    /\ Len(ret.rows) = 1
    /\ ret.rows[1].title = "Attention Is All You Need"

\* C17: when processing one feed entry fails, fetchArxivPapers does not raise:
\* it leaves that entry out and returns every other well-formed entry of the
\* feed, in feed order.
C17_EntryFailureSkipped ==
    (ret.op = "fetchArxivPapers" /\ feed.status = 200)
        => /\ ret.ok
           /\ \A k \in 1..Len(feed.entry) :
                 WellFormed(feed.entry[k])
                     => \E n \in 1..Len(ret.rows) :
                           ret.rows[n].arxiv_id = Canonical(feed.entry[k])
           /\ \A n \in 1..Len(ret.rows) :
                 \E k \in 1..Len(feed.entry) :
                     WellFormed(feed.entry[k])
                     /\ Canonical(feed.entry[k]) = ret.rows[n].arxiv_id
           /\ \A n, m \in 1..Len(ret.rows) :
                 n < m => FirstWith(ret.rows[n].arxiv_id) < FirstWith(ret.rows[m].arxiv_id)

\* an entry without arXiv identifier stood between two papers: both are
\* returned, in their order
C17_Witness ==
    /\ Fetched
    /\ Len(feed.entry) = 3
    /\ WellFormed(feed.entry[1])
    /\ ~WellFormed(feed.entry[2])
    /\ WellFormed(feed.entry[3])
    /\ Len(ret.rows) = 2
    /\ ret.rows[1].arxiv_id = "2401.0002"
    /\ ret.rows[2].arxiv_id = "2401.0001"

\* ---------------------------------------------------------------------------
\* Properties: ingestion and createArticleRaw (Spec)
\* ---------------------------------------------------------------------------
\* the identifiers of the fetched papers
FetchedIds == {mockPapers[k].id : k \in 1..Len(mockPapers)}

\* the identifiers of the classification rows of a run
EnrichedIdsOfRun(table, runId) == {x.arxiv_id : x \in EnrichedOfRun(table, runId)}

\* what holds of the rows of an invocation in a state: they are rows of
\* fetched papers outside the set of stored identifiers it read, an insert is
\* tried for such papers only, and on return they are all of these papers
StoresNewOnly(rawTable, table, invocation) ==
    LET unknown == FetchedIds \ invocation.existingIds
        stored == {r.arxiv_id : r \in {x \in rawTable : x.run_id = invocation.run_id}}
        classified == EnrichedIdsOfRun(table, invocation.run_id)
    IN invocation.pc # "idle"
          => /\ stored \subseteq unknown
             /\ classified \subseteq unknown
             /\ invocation.pc \in {"insert_raw", "classify", "insert_enriched", "failed"}
                   => invocation.newPapers[invocation.i].id \in unknown
             /\ invocation.pc = "done"
                   => stored = unknown /\ classified = unknown

\* C18: ingestPapers reads the set of stored identifiers before it performs
\* any insert, and the papers it stores and classifies are exactly the fetched
\* papers whose identifier is not in that set; a fetched paper that is already
\* stored gets no new raw row and no new classification row.
C18_StoresExactlyNewPapers ==
    [][\A p \in Slots :
          /\ (ing'[p].run_id # ing[p].run_id)
                => /\ ing'[p].existingIds = RawIds(articles_raw)
                   /\ articles_raw' = articles_raw
                   /\ articles_enriched' = articles_enriched
          /\ StoresNewOnly(articles_raw', articles_enriched', ing'[p])]_vars

\* an invocation returned that found one fetched paper stored and the others
\* not
C18_Witness ==
    /\ ing[1].pc = "done"
    /\ ing[1].existingIds \cap FetchedIds = {"2024.01001"}
    /\ ing[1].totalNew = Len(mockPapers) - 1
    /\ \A r \in articles_raw : r.arxiv_id = "2024.01001" => r.run_id = CallerRun
    /\ EnrichedIdsOfRun(articles_enriched, ing[1].run_id) = {"2024.01002", "2024.01003"}

RECURSIVE SumCounts(_)
SumCounts(counts) ==
    IF DOMAIN counts = {} THEN 0
    ELSE LET topic == CHOOSE c \in DOMAIN counts : TRUE
         IN counts[topic] + SumCounts([c \in DOMAIN counts \ {topic} |-> counts[c]])

\* C19: when ingestPapers returns {run_id, total_new, topic_counts}, the raw
\* rows tagged run_id and the classification rows tagged run_id are total_new
\* each, topic_counts[t] is the number of the run's classification rows with
\* primary topic t for every t, and the values of topic_counts sum to total_new.
C19_ResultCountsRows ==
    \A p \in Slots :
        ing[p].pc = "done"
            => LET result == IngestResult(p)
                   rows == EnrichedOfRun(articles_enriched, result.run_id)
               IN /\ Cardinality(RawOfRun(result.run_id)) = result.total_new
                  /\ Cardinality(rows) = result.total_new
                  /\ \A t \in primaryCategoryEnum :
                        Cardinality({x \in rows : x.primary_category = t})
                            = IF t \in DOMAIN result.topic_counts
                              THEN result.topic_counts[t] ELSE 0
                  /\ DOMAIN result.topic_counts \subseteq primaryCategoryEnum
                  /\ SumCounts(result.topic_counts) = result.total_new

\* an invocation returned that stored the whole feed under three topics
C19_Witness ==
    /\ ing[1].pc = "done"
    /\ IngestResult(1).total_new = Len(mockPapers)
    /\ Cardinality(DOMAIN IngestResult(1).topic_counts) = 3
    /\ Cardinality(RawOfRun(IngestResult(1).run_id)) = 3

\* C20: createArticleRaw called with an arxiv_id that is already stored returns
\* the stored record, with its original title, summary and run_id, and leaves
\* the raw-paper table unchanged, even when the other fields of the input
\* differ from the stored ones.
C20_ExistingRecordReturned ==
    [][(Called("createArticleRaw") /\ ret'.arg[1].arxiv_id \in RawIds(articles_raw))
          => /\ articles_raw' = articles_raw
             /\ ret'.ok
             /\ Len(ret'.rows) = 1
             /\ ret'.rows[1] \in articles_raw
             /\ ret'.rows[1].arxiv_id = ret'.arg[1].arxiv_id]_vars

\* createArticleRaw was called with another title, summary and run_id for a
\* paper that an ingestion had stored
C20_Witness ==
    /\ ret.op = "createArticleRaw"
    /\ ret.ok
    /\ ret.arg[1].title = "Different Title"
    /\ ret.rows[1].title = mockPapers[1].title
    /\ ret.rows[1].summary = mockPapers[1].summary
    /\ ret.rows[1].run_id # ret.arg[1].run_id
    /\ ret.rows[1] \in articles_raw

\* ---------------------------------------------------------------------------
\* C21  createArticlesRawBulk returns one record for every input (the newly
\*      inserted record, or the stored record when the identifier exists),
\*      inserts only the identifiers not yet stored and leaves stored rows
\*      unchanged, for any mix of new, stored and repeated identifiers.
\* ---------------------------------------------------------------------------
C21_BulkOneRecordPerInput ==
    [][Called("createArticlesRawBulk") =>
         LET inputs == ret'.arg IN
         /\ ret'.ok
         /\ Len(ret'.rows) = Len(inputs)
         /\ \A i \in 1..Len(inputs) :
                /\ ret'.rows[i] \in articles_raw'
                /\ \E j \in 1..Len(inputs) : ret'.rows[i].arxiv_id = inputs[j].arxiv_id
         /\ \A i \in 1..Len(inputs) :
                \E j \in 1..Len(ret'.rows) : ret'.rows[j].arxiv_id = inputs[i].arxiv_id
         /\ articles_raw \subseteq articles_raw'
         /\ RawIds(articles_raw') =
                RawIds(articles_raw) \cup {inputs[i].arxiv_id : i \in 1..Len(inputs)}
         /\ Cardinality(articles_raw') = Cardinality(RawIds(articles_raw'))]_vars

\* ---------------------------------------------------------------------------
\* C22  getLatestReport returns null when no report row exists; otherwise the
\*      subject, HTML body and creation time of the row with the greatest
\*      creation timestamp, which is the row created last, whatever its run_id
\*      and its emailed flag.
\* ---------------------------------------------------------------------------
C22_LatestReport ==
    [][Called("getLatestReport") =>
         /\ ret'.ok
         /\ weekly_reports = <<>> => ret'.rows = <<>>
         /\ weekly_reports # <<>> =>
                LET last == weekly_reports[Len(weekly_reports)] IN
                /\ ret'.rows = <<[subject |-> last.subject, body_html |-> last.body_html,
                                  created_at |-> last.created_at]>>
                /\ \A j \in 1..Len(weekly_reports) :
                       weekly_reports[j].created_at <= last.created_at]_vars

\* two reports of different runs exist, the first emailed and the second not,
\* and getLatestReport has returned the second
C22_Witness ==
    /\ ret.op = "getLatestReport"
    /\ Len(weekly_reports) = 2
    /\ weekly_reports[1].emailed /\ ~weekly_reports[2].emailed
    /\ weekly_reports[1].run_id # weekly_reports[2].run_id
    /\ ret.rows[1].subject = weekly_reports[2].subject
    /\ ret.rows[1].subject # weekly_reports[1].subject

\* ---------------------------------------------------------------------------
\* C23  In a rendered report the Topic Distribution section lists every topic
\*      of the run in non-increasing order of count, each with its count and
\*      its percentage of the total paper count rounded to one decimal; the
\*      total is the sum of all topic counts; the subject line names the
\*      highest-count topic as the leading topic.
\* ---------------------------------------------------------------------------
\* the classification rows of the run the last call asked for
ReportedRows == EnrichedOfRun(articles_enriched, ret.arg[1].run_id)

PapersIn(topic) == Cardinality({x \in ReportedRows : x.primary_category = topic})

\* the lines of the Topic Distribution section of the returned markdown: those
\* after the heading and the empty line behind it, up to the next empty line
DistributionStart ==
    CHOOSE k \in 1..Len(report.body_markdown) :
        report.body_markdown[k] = <<"## ", "Topic Distribution">>

DistributionLines ==
    LET md == report.body_markdown
        first == DistributionStart + 2
        stop == CHOOSE k \in first..Len(md) :
                    md[k] = <<>> /\ \A j \in first..(k - 1) : md[j] # <<>>
    IN SubSeq(md, first, stop - 1)

\* text is the number (tenths / 10) with one decimal, and no other number with
\* one decimal is nearer to 100 * count / total
IsRoundedPercentage(text, count, total) ==
    \E tenths \in 0..1000 :
        /\ text = ToString(tenths \div 10) \o "." \o ToString(tenths % 10)
        /\ 2 * (tenths * total - 1000 * count) <= total
        /\ 2 * (1000 * count - tenths * total) <= total

C23_TopicDistribution ==
    (ret.op = "generateReport" /\ ret.ok) =>
        LET lines == DistributionLines
            topics == {x.primary_category : x \in ReportedRows}
            total == Cardinality(ReportedRows)
        IN /\ Len(lines) = Cardinality(topics)
           /\ {lines[k][3] : k \in 1..Len(lines)} = topics
           /\ \A k \in 1..Len(lines) :
                  /\ Len(lines[k]) = 9
                  /\ lines[k][1] = ToString(k) \o ". "
                  /\ lines[k][6] = ToString(PapersIn(lines[k][3]))
                  /\ IsRoundedPercentage(lines[k][8], PapersIn(lines[k][3]), total)
                  /\ lines[k][9] = "%)"
           /\ \A k \in 1..(Len(lines) - 1) :
                  PapersIn(lines[k][3]) >= PapersIn(lines[k + 1][3])
           /\ report.body_markdown[4][5] = ToString(total)
           /\ report.subject[4] = ToString(total)
           /\ report.subject[6] \in topics
           /\ \A t \in topics : PapersIn(report.subject[6]) >= PapersIn(t)
           /\ report.body_markdown[5][5] = report.subject[6]

\* counts {A: 1, B: 1, C: 3}: C is listed first with 60.0% and leads the subject
C23_Witness ==
    /\ ret.op = "generateReport" /\ ret.ok
    /\ PapersIn(TopicNames[1]) = 1
    /\ PapersIn(TopicNames[2]) = 1
    /\ PapersIn(TopicNames[3]) = 3
    /\ DistributionLines[1][3] = TopicNames[3]
    /\ DistributionLines[1][6] = "3"
    /\ DistributionLines[1][8] = "60.0"
    /\ DistributionLines[2][8] = "20.0"
    /\ report.subject[5] = " papers, "
    /\ report.subject[6] = TopicNames[3]
    /\ report.subject[7] = " leads)"

\* ---------------------------------------------------------------------------
\* C24  sendEmail never raises: when SMTP host, user or password is missing,
\*      or the connection, verification or send fails, it returns false.
\* ---------------------------------------------------------------------------
C24_SendEmailNeverRaises ==
    ret.op = "sendEmail" =>
        LET c == ret.arg[1] IN
        /\ ret.ok
        /\ Len(ret.rows) = 1
        /\ (~c.host \/ ~c.user \/ ~c.pass \/ c.verify = "throws" \/ c.sendThrows)
               => ~ret.rows[1].delivered

\* the configuration is complete and the verification of the connection has
\* failed: sendEmail has returned false
C24_Witness ==
    /\ ret.op = "sendEmail"
    /\ ret.arg[1].host /\ ret.arg[1].user /\ ret.arg[1].pass
    /\ ret.arg[1].verify = "throws"
    /\ ret.ok
    /\ ret.rows = <<[delivered |-> FALSE]>>

\* ---------------------------------------------------------------------------
\* C25  In markdownToHtml output every arXiv-style identifier of the text is
\*      wrapped in exactly one hyperlink to https://arxiv.org/abs/<id>; an
\*      identifier that is already part of a link (in its href or its link
\*      text) is not wrapped a second time.
\* ---------------------------------------------------------------------------
\* the texts the arXiv pattern matches
ArxivMatches == ArxivIdTexts \cup {"arXiv:2401.12345"}

\* the <a> elements open around token k
AnchorsAround(html, k) ==
    {j \in 1..(k - 1) :
        /\ html[j].t = "open" /\ html[j].name = "a"
        /\ Cardinality({i \in (j + 1)..(k - 1) : html[i].t = "open" /\ html[i].name = "a"})
             >= Cardinality({i \in (j + 1)..(k - 1) : html[i].t = "close" /\ html[i].name = "a"})}

C25_ArxivLinkedOnce ==
    ret.op = "markdownToHtml" =>
        LET html == ret.rows IN
        /\ \A k \in 1..Len(html) :
              (html[k].t = "text" /\ html[k].s \in ArxivMatches) =>
                  /\ Cardinality(AnchorsAround(html, k)) = 1
                  /\ \A j \in AnchorsAround(html, k) :
                        \E n \in 1..Len(html[j].attrs) :
                            /\ html[j].attrs[n].name = "href"
                            /\ html[j].attrs[n].value =
                                   <<"https://arxiv.org/abs/", ArxivIdIn(html[k].s)>>
        /\ \A k \in 1..Len(html) : \A n \in 1..Len(html[k].attrs) :
              \A i \in 1..Len(html[k].attrs[n].value) :
                  html[k].attrs[n].value[i] \notin
                      {ArxivAnchorText(m, ArxivIdIn(m)) : m \in ArxivMatches}

\* ---------------------------------------------------------------------------
\* Properties: ingestion, invocations possibly overlapping (SpecIngest)
\* ---------------------------------------------------------------------------
\* C26: after any sequence of ingestPapers invocations there is at most one
\* classification row per (arxiv_id, run_id) pair, and a classification row is
\* never modified once written.
C26_ClassificationWrittenOnce ==
    /\ [](\A i, j \in 1..Len(articles_enriched) :
             (/\ articles_enriched[i].arxiv_id = articles_enriched[j].arxiv_id
              /\ articles_enriched[i].run_id = articles_enriched[j].run_id) => i = j)
    /\ [][/\ Len(articles_enriched') >= Len(articles_enriched)
          /\ \A k \in 1..Len(articles_enriched) :
                articles_enriched'[k] = articles_enriched[k]]_vars

\* two invocations have each written classification rows, and every fetched
\* paper is classified
C26_Witness ==
    /\ Len(articles_enriched) = Len(mockPapers)
    /\ \E i, j \in 1..Len(articles_enriched) :
          articles_enriched[i].run_id # articles_enriched[j].run_id
    /\ \A p \in Slots : ing[p].pc \in {"done", "failed"}

\* no invocation of ingestPapers is between its first and its last statement
NoIngestionInProgress == \A p \in Slots : ing[p].pc \in {"idle", "done", "failed"}

Classified(r) ==
    \E k \in 1..Len(articles_enriched) :
        /\ articles_enriched[k].arxiv_id = r.arxiv_id
        /\ articles_enriched[k].run_id = r.run_id

\* C28: whenever no ingestion is in progress, including after an ingestPapers
\* invocation that ended with an error part-way through, every raw-paper row
\* has a classification row with the same arxiv_id and run_id; ingestion never
\* leaves a stored paper unclassified that later runs then skip as already seen.
C28_StoredPapersClassified ==
    NoIngestionInProgress => \A r \in articles_raw : Classified(r)

\* C29: when two ingestPapers invocations interleave against the same storage
\* with the same upstream papers, every upstream paper ends with exactly one
\* raw-paper row and exactly one classification row: no duplicate raw row, no
\* duplicate classification, no stored paper without a classification.
C29_InterleavedIngestion ==
    (NoIngestionInProgress /\ \A p \in Slots : ing[p].pc # "idle") =>
        \A k \in 1..Len(mockPapers) :
            /\ Cardinality({r \in articles_raw : r.arxiv_id = mockPapers[k].id}) = 1
            /\ Cardinality({n \in 1..Len(articles_enriched) :
                               articles_enriched[n].arxiv_id = mockPapers[k].id}) = 1

\* ---------------------------------------------------------------------------
\* C27  For a fixed stored state and run identifier, repeated aggregation
\*      returns the topics in the same order on every invocation, including
\*      topics with equal counts: ties are ordered deterministically, not by
\*      an unspecified storage order.
\* ---------------------------------------------------------------------------
TopicOrder(topicCounts) == [k \in 1..Len(topicCounts) |-> topicCounts[k].primary_category]

\* the results the latest aggregation can return on the stored rows
AggregationResults ==
    IF ret.op = "getTopicAggregations"
    THEN getTopicAggregations(articles_raw, articles_enriched, RetRun)
    ELSE getTopicCountsWithRepresentativePapers(articles_raw, articles_enriched, RetRun)

C27_DeterministicTopicOrder ==
    Aggregated =>
        \A again \in AggregationResults : TopicOrder(again) = TopicOrder(ret.rows)

\* ---------------------------------------------------------------------------
\* C30  generateReport, getTopicAggregations, getTopicCounts and
\*      getLatestReport never insert, modify or delete raw-paper or
\*      classification rows; the only write generateReport performs is the
\*      insertion of one report row, and when it fails it writes nothing.
\* ---------------------------------------------------------------------------
ReadingHandlers == {"getTopicAggregations", "getTopicCounts", "getLatestReport"}

OneReportInserted ==
    /\ Len(weekly_reports') = Len(weekly_reports) + 1
    /\ SubSeq(weekly_reports', 1, Len(weekly_reports)) = weekly_reports

C30_ReportingWritesOnlyReports ==
    [][/\ (\E op \in ReadingHandlers : Stepped(op)) =>
              /\ articles_raw' = articles_raw
              /\ articles_enriched' = articles_enriched
              /\ weekly_reports' = weekly_reports
       /\ Stepped("generateReport") =>
              /\ articles_raw' = articles_raw
              /\ articles_enriched' = articles_enriched
              /\ IF ret'.ok THEN OneReportInserted
                            ELSE weekly_reports' = weekly_reports]_vars

\* a generateReport that failed on a database that holds papers,
\* classifications and a report of an earlier call
C30_Witness ==
    /\ ret.op = "generateReport"
    /\ ~ret.ok
    /\ Len(weekly_reports) > 0
    /\ articles_raw # {}
    /\ Len(articles_enriched) > 0

====
